---- MODULE Spec2Model ----
(***************************************************************************)
(* Resource accounting scripts of SKRYPTY/: the quantity parsers           *)
(* (convert_memory_to_mib, convert_cpu_to_m in their six variants), the    *)
(* workload reports (limitpython, limitsreq, namespacelimitsreq), the     *)
(* namespace report of ns_resource_report (get_running_pods_resources,     *)
(* get_top_pods, main from check_login to generate_report, with the fatal  *)
(* exits of run_oc, check_login and get_namespaces) and the node report of *)
(* node_auditor (get_nodes_data, get_pods_requests,                        *)
(* generate_full_node_report); SpecAggregations calls an aggregation a     *)
(* second time in the same process.                                        *)
(*                                                                         *)
(* Strings are sequences of one-character strings; a character outside     *)
(* ASCII is written "U+" and its code point.  Python floats are binary64:  *)
(* every operation of the code on them is the float operation, rounded to  *)
(* nearest with ties to even.                                              *)
(***************************************************************************)
EXTENDS Integers, Sequences, FiniteSets, TLC

VARIABLES
    pc,            \* position of the running script
    fn,            \* parser under call: "mem" or "cpu"
    variant,       \* the script whose variant of the parser is called
    value_str,     \* the argument of the parser
    numeral,       \* the number the argument was formatted from (quarters), or NoNumeral
    suffix,        \* the unit suffix appended to the formatted number
    result,        \* what the call returned: [raised, val]
    script,        \* the workload report that runs
    items,         \* data['items'] / resources_to_process: the fetched workloads
    idx,           \* number of items the loop has been through
    totals,        \* total_cpu_req_m, total_cpu_lim_m, total_mem_req_mb, total_mem_lim_mb
    total_replicas,\* namespacelimitsreq: total_replicas
    report_data,   \* namespacelimitsreq: the rows appended so far
    skipped,       \* limitpython: positions of the items announced as skipped
    report,        \* the totals printed at the end, or NoReport
    pod_items,     \* ns_resource_report: data['items'], the Running pods of the namespace
    pod_idx,       \* number of pods `for pod in data.get('items', [])` has been through
    pods_count,    \* pods_count
    no_req_pods,   \* no_req_pods
    pod_totals,    \* total_cpu_req_m, total_cpu_lim_m, total_mem_req_mib, total_mem_lim_mib
    ns_result,     \* the dict get_running_pods_resources returned, or NotReturned
    top_lines,     \* get_top_pods: stdout.strip().splitlines()
    top_idx,       \* number of lines the loop has been through
    top_totals,    \* total_cpu_m, total_mem_mib
    parsed,        \* parsed
    top_result,    \* what get_top_pods returned
    namespaces,    \* ns_resource_report.main: the namespaces to analyse
    ns_idx,        \* number of namespaces the loop of main has been through
    ns_data,       \* ns_data, in insertion order: <<[ns, data], ...>>
    show_top,      \* not args.no_top
    sort_by,       \* args.sort
    oc_results,    \* what oc gave for each namespace collected so far
    ns_report,     \* what generate_report printed, or NoNsReport
    args,          \* args.namespace, args.skip_system, args.exclude
    cluster,       \* the namespace names `oc get namespaces` prints
    fetched,       \* data of the namespace under way and the reply it came from, or NotFetched
    oc_calls,      \* the oc queries of the namespace loop, in the order made
    blad,          \* the BLAD lines printed so far
    \* node_auditor.py
    cluster_nodes, \* the nodes of the cluster: name and status memory strings
    cluster_pods,  \* the pods of the cluster: phase, spec.nodeName, containers
    node_metrics,  \* node_metrics, in insertion order
    np_items,      \* pods_data['items'] as get_oc_json returned it
    np_idx,        \* pods of np_items processed so far
    unmatched_pods_count,
    info_line,     \* the count printed on the [INFO] line, or None
    node_report,   \* report_data, or NoNodeReport
    oc_error,      \* the exception of the last get_oc_json call, or NoOcError
    \* a second invocation of an aggregation in the same process
    run_no,        \* 1 in the first invocation, 2 in the second
    first_run      \* input and output of the first invocation, or None

parseVars == <<fn, variant, value_str, numeral, suffix, result>>
workloadVars == <<script, items, idx, totals, total_replicas, report_data, skipped, report>>
podVars == <<pod_items, pod_idx, pods_count, no_req_pods, pod_totals, ns_result>>
topVars == <<top_lines, top_idx, top_totals, parsed, top_result>>
reportVars == <<namespaces, ns_idx, ns_data, show_top, sort_by, oc_results, ns_report,
                args, cluster, fetched, oc_calls, blad>>
nodeVars == <<cluster_nodes, cluster_pods, node_metrics, np_items, np_idx,
              unmatched_pods_count, info_line, node_report, oc_error>>
runVars == <<run_no, first_run>>
vars == <<pc, parseVars, workloadVars, podVars, topVars, reportVars, nodeVars, runVars>>

----------------------------------------------------------------------------
(* Bounds of the model *)

\* formatted numerals range over -MaxQuarters/4 .. MaxQuarters/4 in steps of 1/4
MaxQuarters == 50
\* raw (possibly malformed) argument strings have at most MaxLen characters
MaxLen == 3
\* a namespace holds at most MaxItems workloads
MaxItems == 2

\* a namespace holds at most MaxPods Running pods
MaxPods == 3
\* the usage snapshot of a namespace has at most MaxLines lines
MaxLines == 3
\* main analyses at most MaxNamespaces namespaces
MaxNamespaces == 2

----------------------------------------------------------------------------
(* Python values *)

\* None, distinct from every string
None == <<"None">>

\* `not value_str`: None and the empty string are falsy
Falsy(v) == v = None \/ v = <<>>

----------------------------------------------------------------------------
(* Exact rationals [n, d] in lowest terms, d > 0: the numbers a report      *)
(* prints, and the floats whose value is such a rational                    *)

Abs(x) == IF x < 0 THEN -x ELSE x

RECURSIVE GCD(_, _)
GCD(a, b) == IF b = 0 THEN a ELSE GCD(b, a % b)

Rat(n, d) == LET g == GCD(Abs(n), d) IN [n |-> n \div g, d |-> d \div g]

RZero == [n |-> 0, d |-> 1]

RInt(k) == [n |-> k, d |-> 1]

RMul(a, b) ==
    LET g1 == GCD(Abs(a.n), b.d)
        g2 == GCD(Abs(b.n), a.d)
    IN  [n |-> (a.n \div g1) * (b.n \div g2), d |-> (a.d \div g2) * (b.d \div g1)]

RAdd(a, b) ==
    LET g == GCD(a.d, b.d)
    IN  Rat(a.n * (b.d \div g) + b.n * (a.d \div g), (a.d \div g) * b.d)

\* a < b and a / b (b # 0) on rationals
RLess(a, b) == a.n * b.d < b.n * a.d

RDiv(a, b) == IF b.n > 0 THEN RMul(a, [n |-> b.d, d |-> b.n])
              ELSE RMul(a, [n |-> -b.d, d |-> -b.n])

RSub(a, b) == RAdd(a, [n |-> -b.n, d |-> b.d])

RECURSIVE Pow10(_)
Pow10(k) == IF k = 0 THEN 1 ELSE 10 * Pow10(k - 1)

RECURSIVE Pow2(_)
Pow2(k) == IF k = 0 THEN 1 ELSE 2 * Pow2(k - 1)

\* the integer nearest to m / d (m >= 0, d > 0), a tie going to the even one
NearestEven(m, d) ==
    IF 2 * (m % d) > d THEN (m \div d) + 1
    ELSE IF 2 * (m % d) < d THEN m \div d
    ELSE (m \div d) + ((m \div d) % 2)

\* the rational x to k decimals, half to even
RoundTo(x, k) ==
    Rat((IF x.n < 0 THEN -1 ELSE 1) * NearestEven(Abs(x.n) * Pow10(k), x.d), Pow10(k))

----------------------------------------------------------------------------
(* str methods *)

\* s.endswith(u)
EndsWith(s, u) ==
    /\ Len(s) >= Len(u)
    /\ SubSeq(s, Len(s) - Len(u) + 1, Len(s)) = u

\* s[:-k], k > 0
DropLast(s, k) == IF Len(s) >= k THEN SubSeq(s, 1, Len(s) - k) ELSE <<>>

\* s.replace(c, by): every occurrence of the character c
RECURSIVE Replace(_, _, _)
Replace(s, c, by) ==
    IF s = <<>> THEN <<>>
    ELSE (IF Head(s) = c THEN by ELSE <<Head(s)>>) \o Replace(Tail(s), c, by)

----------------------------------------------------------------------------
(* Natural numbers beyond the integers of the checker: sequences of bits,   *)
(* lowest first, without zeros at the high end                              *)

RECURSIVE BitsOf(_)
BitsOf(n) == IF n = 0 THEN <<>> ELSE <<n % 2>> \o BitsOf(n \div 2)

RECURSIVE NatOf(_)
NatOf(b) == IF b = <<>> THEN 0 ELSE b[1] + 2 * NatOf(Tail(b))

Zeros(k) == [i \in 1..k |-> 0]

\* b without its zeros at the high end
Trim(b) ==
    IF \A i \in 1..Len(b) : b[i] = 0 THEN <<>>
    ELSE SubSeq(b, 1, CHOOSE k \in 1..Len(b) : b[k] = 1 /\ \A i \in (k + 1)..Len(b) : b[i] = 0)

\* b with zeros at the high end up to the length len
Pad(b, len) == b \o Zeros(len - Len(b))

\* the carry into position i of a + b, a and b of one length: the nearest
\* position below i where the two bits are equal holds it
CarryInto(a, b, i) ==
    IF \E t \in 1..(i - 1) : a[i - t] = b[i - t]
    THEN a[i - CHOOSE t \in 1..(i - 1) :
                   a[i - t] = b[i - t] /\ \A u \in 1..(t - 1) : a[i - u] # b[i - u]]
    ELSE 0

SumBits(a, b) == [i \in 1..Len(a) |-> (a[i] + b[i] + CarryInto(a, b, i)) % 2]

\* a + b
BAdd(a, b) ==
    IF a = <<>> THEN b
    ELSE IF b = <<>> THEN a
    ELSE Trim(SumBits(Pad(a, 1 + (IF Len(a) > Len(b) THEN Len(a) ELSE Len(b))),
                      Pad(b, 1 + (IF Len(a) > Len(b) THEN Len(a) ELSE Len(b)))))

\* 2^len - 1 - b
Complement(b, len) == [i \in 1..len |-> IF i <= Len(b) THEN 1 - b[i] ELSE 1]

\* a - b, a >= b
BSub(a, b) ==
    Trim(SubSeq(SumBits(<<1>> \o a, <<1>> \o Complement(b, Len(a))), 2, Len(a) + 1))

\* a < b
BLess(a, b) ==
    \/ Len(a) < Len(b)
    \/ /\ Len(a) = Len(b)
       /\ \E t \in 0..(Len(a) - 1) :
             /\ a[Len(a) - t] < b[Len(a) - t]
             /\ \A u \in 0..(t - 1) : a[Len(a) - u] = b[Len(a) - u]

\* the sum of a * 2^(j-1) over the positions j of lo..hi where b has a 1
RECURSIVE PartialProducts(_, _, _, _)
PartialProducts(a, b, lo, hi) ==
    IF lo = hi THEN (IF b[lo] = 1 THEN Zeros(lo - 1) \o a ELSE <<>>)
    ELSE BAdd(PartialProducts(a, b, lo, (lo + hi) \div 2),
              PartialProducts(a, b, ((lo + hi) \div 2) + 1, hi))

\* a * b
BMul(a, b) ==
    IF a = <<>> \/ b = <<>> THEN <<>>
    ELSE IF Len(a) < Len(b) THEN PartialProducts(b, a, 1, Len(a))
    ELSE PartialProducts(a, b, 1, Len(b))

\* the number of zero bits at the low end of b, some bit of b being 1
LowZeros(b) == CHOOSE k \in 0..(Len(b) - 1) : b[k + 1] = 1 /\ \A i \in 1..k : b[i] = 0

\* long division, one step: the remainder r with the next bit of the dividend
\* brought down gives one bit of the quotient
BringDown(d, r) ==
    IF BLess(r, d) THEN [q |-> <<0>>, rem |-> r] ELSE [q |-> <<1>>, rem |-> BSub(r, d)]

\* the quotient bits, highest first, of a higher and of a lower part of the
\* dividend
Joined(high, low) == [q |-> high.q \o low.q, rem |-> low.rem]

\* long division over the bits hi..lo of n, r the remainder brought in: the
\* higher half first, its remainder into the lower half
RECURSIVE DivideFrom(_, _, _, _, _)
DivideLower(n, d, lo, mid, top) == Joined(top, DivideFrom(n, d, lo, mid, top.rem))

DivideFrom(n, d, lo, hi, r) ==
    IF lo = hi THEN BringDown(d, Trim(<<n[lo]>> \o r))
    ELSE DivideLower(n, d, lo, (lo + hi) \div 2,
                     DivideFrom(n, d, ((lo + hi) \div 2) + 1, hi, r))

Reverse(b) == [i \in 1..Len(b) |-> b[Len(b) + 1 - i]]

Trimmed(x) == [q |-> Trim(Reverse(x.q)), rem |-> x.rem]

\* n \div d and n % d, d # 0
LongDivide(n, d) ==
    IF BLess(n, d) THEN [q |-> <<>>, rem |-> n]
    ELSE Trimmed(DivideFrom(n, d, 1, Len(n) - Len(d) + 1,
                            Trim(SubSeq(n, Len(n) - Len(d) + 2, Len(n)))))

\* 10^k
RECURSIVE Pow10Bits(_)
Square(b) == BMul(b, b)

Pow10Bits(k) ==
    IF k = 0 THEN <<1>>
    ELSE IF k % 2 = 0 THEN Square(Pow10Bits(k \div 2))
    ELSE BAdd(<<0>> \o Pow10Bits(k - 1), <<0, 0, 0>> \o Pow10Bits(k - 1))

----------------------------------------------------------------------------
(* binary64.  A float is                                                    *)
(*   a rational [n, d] with d a power of two, |n| < 2^30 and d <= 2^30;     *)
(*   [neg, m, e], standing for (-1)^neg * m * 2^e with m an odd number of   *)
(*   at most 53 bits, when its value is no such rational;                   *)
(*   inf, -inf or nan.                                                      *)
(* Every operation returns the float nearest to the exact result, a tie     *)
(* going to the even one.  The zero with the negative sign is NegZero.      *)

\* inf, -inf and nan
Infinity(neg) == [n |-> IF neg THEN -1 ELSE 1, d |-> 0]

NaN == [n |-> 0, d |-> 0]

Float(neg, m, e) == [neg |-> neg, m |-> m, e |-> e]

\* -0.0
NegZero == Float(TRUE, <<>>, 0)

\* 0.0 and -0.0
Zero(neg) == IF neg THEN NegZero ELSE RZero

\* x == 0
IsZero(x) == x = RZero \/ x = NegZero

IsRat(x) == "n" \in DOMAIN x

IsNaN(x) == x = NaN

IsInf(x) == x = Infinity(FALSE) \/ x = Infinity(TRUE)

IsFinite(x) == ~IsNaN(x) /\ ~IsInf(x)

IsNegative(x) == IF IsRat(x) THEN x.n < 0 ELSE x.neg

Negate(x) ==
    IF IsZero(x) THEN Zero(x = RZero)
    ELSE IF IsRat(x) THEN [n |-> -x.n, d |-> x.d]
    ELSE Float(~x.neg, x.m, x.e)

\* m * 2^e with the low zeros of m moved into the exponent
Normal(neg, m, e) ==
    IF Trim(m) = <<>> THEN Float(neg, <<>>, 0)
    ELSE Float(neg, SubSeq(Trim(m), LowZeros(m) + 1, Len(Trim(m))), e + LowZeros(m))

\* the float m * 2^e, m odd, as the rational it is when that one is small
Canon(f) ==
    IF f.m = <<>> THEN Zero(f.neg)
    ELSE IF Len(f.m) <= 30 /\ f.e >= -30 /\ Len(f.m) + f.e <= 30
         THEN [n |-> (IF f.neg THEN -1 ELSE 1) * NatOf(f.m) * Pow2(IF f.e > 0 THEN f.e ELSE 0),
               d |-> Pow2(IF f.e < 0 THEN -f.e ELSE 0)]
    ELSE f

\* a finite float as sign, odd mantissa and exponent
AsFloat(x) ==
    IF IsRat(x) THEN Normal(x.n < 0, BitsOf(Abs(x.n)), 1 - Len(BitsOf(x.d))) ELSE x

\* m * 2^e when it is under 2^1024, else inf
Finite(neg, m, e) ==
    IF Len(Trim(m)) + e > 1024 THEN Infinity(neg) ELSE Canon(Normal(neg, m, e))

\* the number of low bits of m that a float does not hold: those beyond the
\* 53 highest, and those below 2^-1074
Dropped(m, e) == IF Len(m) - 53 > -1074 - e THEN Len(m) - 53 ELSE -1074 - e

\* m without its k low bits (0 < k <= Len(m)), rounded to nearest, ties to
\* even; lost is whether something non-zero was dropped already below m
RoundedOff(m, k, lost) ==
    IF m[k] = 1 /\ (lost \/ (\E i \in 1..(k - 1) : m[i] = 1) \/ (k < Len(m) /\ m[k + 1] = 1))
    THEN BAdd(SubSeq(m, k + 1, Len(m)), <<1>>)
    ELSE SubSeq(m, k + 1, Len(m))

\* round to nearest, ties to even: the float nearest to m * 2^e (plus
\* something below the last bit of m when lost)
RoundBits(neg, m, e, lost) ==
    IF m = <<>> THEN Zero(neg)
    ELSE IF Dropped(m, e) <= 0 THEN Finite(neg, m, e)
    ELSE IF Dropped(m, e) > Len(m) THEN Zero(neg)
    ELSE Finite(neg, RoundedOff(m, Dropped(m, e), lost), e + Dropped(m, e))

\* the k bits of r / d (0 <= r < d) after the point, highest first, and the
\* remainder: the higher half of the bits first, its remainder into the lower
RECURSIVE QuotientBits(_, _, _)
JoinedBits(high, low) == [bits |-> high.bits \o low.bits, rem |-> low.rem]

LowerBits(d, k, top) == JoinedBits(top, QuotientBits(top.rem, d, k))

QuotientBits(r, d, k) ==
    IF r = 0 THEN [bits |-> Zeros(k), rem |-> 0]
    ELSE IF k = 1 THEN [bits |-> <<(2 * r) \div d>>, rem |-> (2 * r) % d]
    ELSE LowerBits(d, k \div 2, QuotientBits(r, d, k - (k \div 2)))

\* the float nearest to a quotient with integer part ip and the bits q after
\* the point
FloatOfBits(neg, ip, q) ==
    RoundBits(neg, Trim(Reverse(q.bits) \o ip), -Len(q.bits), q.rem # 0)

PowersOfTwo == {Pow2(k) : k \in 0..30}

\* the float nearest to n / d for integers 0 <= n, 0 < d, both under 2^30,
\* q the quotient in lowest terms: q itself when its denominator is a power
\* of two, else the quotient taken to 55 bits or more and rounded
NearestQuotient(neg, n, d, q) ==
    IF n = 0 THEN Zero(neg)
    ELSE IF q.d \in PowersOfTwo THEN (IF neg THEN Negate(q) ELSE q)
    ELSE FloatOfBits(neg, BitsOf(n \div d),
                     QuotientBits(n % d, d, 55 + Len(BitsOf(d)) - Len(BitsOf(n))))

FloatOfQuotient(neg, n, d) == NearestQuotient(neg, n, d, Rat(n, d))

\* the float nearest to n * 2^e / d for n and d of any size: n is shifted
\* until the quotient has 55 bits or more
ShiftFor(n, d) == IF 55 + Len(d) - Len(n) > 0 THEN 55 + Len(d) - Len(n) ELSE 0

FloatOfLong(neg, q, e) == RoundBits(neg, q.q, e, q.rem # <<>>)

DivideBits(neg, n, d, e) ==
    IF n = <<>> THEN Zero(neg)
    ELSE FloatOfLong(neg, LongDivide(Zeros(ShiftFor(n, d)) \o n, d), e - ShiftFor(n, d))

\* m * 2^e as a multiple of 2^e0, e0 <= e
Aligned(f, e0) == IF f.m = <<>> THEN <<>> ELSE Zeros(f.e - e0) \o f.m

SignedSum(negA, a, negB, b, e0) ==
    IF negA = negB THEN RoundBits(negA, BAdd(a, b), e0, FALSE)
    ELSE IF a = b THEN RZero
    ELSE IF BLess(a, b) THEN RoundBits(negB, BSub(b, a), e0, FALSE)
    ELSE RoundBits(negA, BSub(a, b), e0, FALSE)

\* the place above the highest bit of m * 2^e
Top(f) == f.e + Len(f.m)

\* g is under 2^-60 of f: f + g rounds to f
Beyond(f, g) == Top(f) - Top(g) > 60

AddFloats(f, g) ==
    IF f.m = <<>> /\ g.m = <<>> THEN Zero(f.neg /\ g.neg)
    ELSE IF g.m = <<>> THEN Canon(f)
    ELSE IF f.m = <<>> THEN Canon(g)
    ELSE IF Beyond(f, g) THEN Canon(f)
    ELSE IF Beyond(g, f) THEN Canon(g)
    ELSE SignedSum(f.neg, Aligned(f, IF f.e < g.e THEN f.e ELSE g.e),
                   g.neg, Aligned(g, IF f.e < g.e THEN f.e ELSE g.e),
                   IF f.e < g.e THEN f.e ELSE g.e)

\* the rationals whose sum, product, quotient and comparison stay within the
\* integers of the checker
SmallSum(a, b) ==
    /\ IsRat(a) /\ IsRat(b)
    /\ Abs(a.n) <= 536870911 \div ((IF a.d > b.d THEN a.d ELSE b.d) \div a.d)
    /\ Abs(b.n) <= 536870911 \div ((IF a.d > b.d THEN a.d ELSE b.d) \div b.d)

SmallProduct(a, b) ==
    /\ IsRat(a) /\ IsRat(b)
    /\ (b.n = 0 \/ Abs(a.n) <= 1073741823 \div Abs(b.n))
    /\ a.d <= 1073741824 \div b.d

SmallCross(a, b) ==
    /\ IsRat(a) /\ IsRat(b)
    /\ Abs(a.n) <= 1073741823 \div b.d
    /\ Abs(b.n) <= 1073741823 \div a.d

\* a + b
FloatAdd(a, b) ==
    IF IsNaN(a) \/ IsNaN(b) \/ (IsInf(a) /\ IsInf(b) /\ a # b) THEN NaN
    ELSE IF IsInf(a) THEN a
    ELSE IF IsInf(b) THEN b
    ELSE IF SmallSum(a, b) THEN RAdd(a, b)
    ELSE AddFloats(AsFloat(a), AsFloat(b))

\* a - b
FloatSub(a, b) == FloatAdd(a, Negate(b))

\* a * b
FloatMul(a, b) ==
    IF IsNaN(a) \/ IsNaN(b) THEN NaN
    ELSE IF IsInf(a) \/ IsInf(b)
         THEN (IF IsZero(a) \/ IsZero(b) THEN NaN
               ELSE Infinity(IsNegative(a) # IsNegative(b)))
    ELSE IF SmallProduct(a, b)
         THEN (IF a.n # 0 /\ b.n # 0 THEN RMul(a, b) ELSE Zero((a.n < 0) # (b.n < 0)))
    ELSE RoundBits(IsNegative(a) # IsNegative(b), BMul(AsFloat(a).m, AsFloat(b).m),
                   AsFloat(a).e + AsFloat(b).e, FALSE)

\* a / b, b # 0
FloatDiv(a, b) ==
    IF IsNaN(a) \/ IsNaN(b) \/ (IsInf(a) /\ IsInf(b)) THEN NaN
    ELSE IF IsInf(a) THEN Infinity(IsNegative(a) # IsNegative(b))
    ELSE IF IsInf(b) THEN Zero(IsNegative(a) # IsNegative(b))
    ELSE IF SmallCross(a, b)
         THEN FloatOfQuotient((a.n < 0) # (b.n < 0), Abs(a.n) * b.d, a.d * Abs(b.n))
    ELSE DivideBits(IsNegative(a) # IsNegative(b), AsFloat(a).m, AsFloat(b).m,
                    AsFloat(a).e - AsFloat(b).e)

\* a < b on finite floats as sign, mantissa and exponent
\* |f| < |g|
SmallerFloat(f, g) ==
    IF g.m = <<>> THEN FALSE
    ELSE IF f.m = <<>> THEN TRUE
    ELSE IF Top(f) # Top(g) THEN Top(f) < Top(g)
    ELSE BLess(Aligned(f, IF f.e < g.e THEN f.e ELSE g.e),
               Aligned(g, IF f.e < g.e THEN f.e ELSE g.e))

LessFloats(f, g) ==
    IF f.neg # g.neg THEN f.neg
    ELSE IF f.neg THEN SmallerFloat(g, f)
    ELSE SmallerFloat(f, g)

\* a < b: false when either is nan
FloatLess(a, b) ==
    IF IsNaN(a) \/ IsNaN(b) \/ a = b \/ (IsZero(a) /\ IsZero(b)) THEN FALSE
    ELSE IF IsInf(a) \/ IsInf(b) THEN a = Infinity(TRUE) \/ b = Infinity(FALSE)
    ELSE IF SmallCross(a, b) THEN RLess(a, b)
    ELSE LessFloats(AsFloat(a), AsFloat(b))

\* a >= b: false when either is nan
FloatGe(a, b) == ~IsNaN(a) /\ ~IsNaN(b) /\ ~FloatLess(a, b)

\* the integer nearest to m * 2^e, a tie going to the even one
NearestEvenBits(m, e) ==
    IF e >= 0 THEN Zeros(e) \o m
    ELSE IF Len(m) < -e THEN <<>>
    ELSE RoundedOff(m, -e, FALSE)

\* the decimal of k places with the digits n behind the sign; "-0.00" is
\* NegZero
Printed(neg, n, k) == IF n = 0 THEN Zero(neg) ELSE Rat((IF neg THEN -1 ELSE 1) * n, Pow10(k))

FixedOfFloat(f, k) ==
    Printed(f.neg, NatOf(NearestEvenBits(BMul(f.m, Pow10Bits(k)), f.e)), k)

\* f"{x:.kf}": the float x printed with k decimals, as the rational printed;
\* inf and nan are printed as they are
FloatFixed(x, k) ==
    IF ~IsFinite(x) THEN x
    ELSE IF IsRat(x) /\ Abs(x.n) <= 2147483647 \div Pow10(k)
         THEN Printed(x.n < 0, NearestEven(Abs(x.n) * Pow10(k), x.d), k)
    ELSE FixedOfFloat(AsFloat(x), k)

\* round(x, k): the float nearest to x rounded to k decimals; a float
\* without binary places is its own rounding
FloatRound(x, k) ==
    IF ~IsFinite(x) THEN x
    ELSE IF IsRat(x) /\ Abs(x.n) <= 1073741823 \div Pow10(k)
         THEN FloatOfQuotient(x.n < 0, NearestEven(Abs(x.n) * Pow10(k), x.d), Pow10(k))
    ELSE IF AsFloat(x).e >= 0 THEN x
    ELSE DivideBits(IsNegative(x),
                    NearestEvenBits(BMul(AsFloat(x).m, Pow10Bits(k)), AsFloat(x).e),
                    Pow10Bits(k), 0)

----------------------------------------------------------------------------
(* float(str): spaces around, underscores between digits, sign, digits, one *)
(* point, exponent, inf and nan, or ValueError; float(None) is a TypeError  *)

DigitChars == <<"0", "1", "2", "3", "4", "5", "6", "7", "8", "9">>

IsDigit(c) == \E i \in 1..10 : DigitChars[i] = c

DigitVal(c) == (CHOOSE i \in 1..10 : DigitChars[i] = c) - 1

AllDigits(s) == \A i \in 1..Len(s) : IsDigit(s[i])

RECURSIVE DigitsToNat(_)
DigitsToNat(s) ==
    IF s = <<>> THEN 0
    ELSE 10 * DigitsToNat(DropLast(s, 1)) + DigitVal(s[Len(s)])

ValueError == [ok |-> FALSE, val |-> RZero, error |-> "ValueError"]

TypeError == [ok |-> FALSE, val |-> RZero, error |-> "TypeError"]

\* the digits s as a number in bits
RECURSIVE DigitsBits(_)
DigitsBits(s) ==
    IF Len(s) <= 9 THEN BitsOf(DigitsToNat(s))
    ELSE BAdd(BMul(DigitsBits(SubSeq(s, 1, Len(s) \div 2)),
                   Pow10Bits(Len(s) - (Len(s) \div 2))),
              DigitsBits(SubSeq(s, (Len(s) \div 2) + 1, Len(s))))

\* s without its leading zeros
Significant(s) ==
    IF \A i \in 1..Len(s) : s[i] = "0" THEN <<>>
    ELSE SubSeq(s, CHOOSE i \in 1..Len(s) : s[i] # "0" /\ \A j \in 1..(i - 1) : s[j] = "0",
                Len(s))

\* the float nearest to s * 10^k, s digits without leading zeros: 10^310 and
\* more is inf, less than 10^-330 is 0
DecimalFloat(neg, s, k) ==
    IF s = <<>> THEN Zero(neg)
    ELSE IF Len(s) + k > 310 THEN Infinity(neg)
    ELSE IF Len(s) + k < -330 THEN Zero(neg)
    ELSE IF k >= 0 /\ Len(s) + k <= 9
         THEN RInt((IF neg THEN -1 ELSE 1) * DigitsToNat(s) * Pow10(k))
    ELSE IF k < 0 /\ k >= -9 /\ Len(s) <= 9
         THEN FloatOfQuotient(neg, DigitsToNat(s), Pow10(-k))
    ELSE IF k >= 0 THEN RoundBits(neg, BMul(DigitsBits(s), Pow10Bits(k)), 0, FALSE)
    ELSE DivideBits(neg, DigitsBits(s), Pow10Bits(-k), 0)

\* a character outside ASCII, and an ASCII control character that has no
\* escape, is written "U+" and its code point in hexadecimal digits
HexDigits == "0123456789ABCDEF"

HexVal(h) == (CHOOSE v \in 1..16 : SubSeq(HexDigits, v, v) = h) - 1

RECURSIVE HexToNat(_)
HexToNat(h) ==
    IF Len(h) = 0 THEN 0
    ELSE 16 * HexToNat(SubSeq(h, 1, Len(h) - 1)) + HexVal(SubSeq(h, Len(h), Len(h)))

\* the code point of a character written "U+..."
CodePoint(c) == HexToNat(SubSeq(c, 3, Len(c)))

\* Py_UNICODE_TODECIMAL: the code points of the digits zero outside ASCII
\* (Unicode 14.0, category Nd); the nine code points after each are its
\* digits one to nine
DecimalZeros ==
    {1632, 1776, 1984, 2406, 2534, 2662, 2790, 2918, 3046, 3174, 3302, 3430, 3558,
     3664, 3792, 3872, 4160, 4240, 6112, 6160, 6470, 6608, 6784, 6800, 6992, 7088,
     7232, 7248, 42528, 43216, 43264, 43472, 43504, 43600, 44016, 65296, 66720,
     68912, 69734, 69872, 69942, 70096, 70384, 70736, 70864, 71248, 71360, 71472,
     71904, 72016, 72784, 73040, 73120, 92768, 92864, 93008, 120782, 120792,
     120802, 120812, 120822, 123200, 123632, 125264, 130032}

\* Py_ISSPACE: space, \t, \n, \r, \f and the vertical tab
AsciiSpaces == {" ", "\t", "\n", "\r", "\f", "U+000B"}

\* Py_UNICODE_ISSPACE outside ASCII: NEXT LINE, NO-BREAK SPACE, OGHAM SPACE
\* MARK, EN QUAD to HAIR SPACE, LINE and PARAGRAPH SEPARATOR, NARROW NO-BREAK
\* SPACE, MEDIUM MATHEMATICAL SPACE, IDEOGRAPHIC SPACE
UnicodeSpaces == {133, 160, 5760, 8232, 8233, 8239, 8287, 12288} \cup (8192..8202)

\* str.isspace() of one character: Py_UNICODE_ISSPACE, which in ASCII holds
\* the four separators U+001C to U+001F besides Py_ISSPACE
IsSpace(c) ==
    \/ c \in AsciiSpaces
    \/ Len(c) > 1 /\ (CodePoint(c) \in 28..31 \/ CodePoint(c) \in UnicodeSpaces)

IsDecimal(cp) == \E z \in DecimalZeros : cp - z \in 0..9

\* _PyUnicode_TransformDecimalAndSpaceToASCII on one character: a character
\* under 127 stays, a space becomes " ", a decimal digit its ASCII digit and
\* any other character "?"
ToAscii(c) ==
    IF Len(c) = 1 \/ CodePoint(c) < 127 THEN c
    ELSE IF CodePoint(c) \in UnicodeSpaces THEN " "
    ELSE IF IsDecimal(CodePoint(c))
         THEN DigitChars[CodePoint(c) - (CHOOSE z \in DecimalZeros : CodePoint(c) - z \in 0..9) + 1]
    ELSE "?"

\* a character that is neither ASCII nor a space nor a decimal digit
Untransformable(c) ==
    /\ Len(c) > 1 /\ CodePoint(c) >= 127
    /\ CodePoint(c) \notin UnicodeSpaces /\ ~IsDecimal(CodePoint(c))

\* the string ends with the "?" of its first such character
TransformDecimalAndSpaceToASCII(s) ==
    IF \A i \in 1..Len(s) : ~Untransformable(s[i]) THEN [i \in 1..Len(s) |-> ToAscii(s[i])]
    ELSE [i \in 1..(CHOOSE k \in 1..Len(s) :
                        Untransformable(s[k]) /\ \A j \in 1..(k - 1) : ~Untransformable(s[j]))
            |-> ToAscii(s[i])]

\* _Py_string_to_number_with_underscores: an underscore is allowed only
\* after a digit and before a digit
UnderscoresAllowed(s) ==
    \A i \in 1..Len(s) :
        s[i] = "_" => /\ i > 1 /\ IsDigit(s[i - 1])
                      /\ i < Len(s) /\ IsDigit(s[i + 1])

IsNoUnderscore(c) == c # "_"

\* the string with its leading and trailing Py_ISSPACE characters removed
StripSpaces(s) ==
    IF s # <<>> /\ s[1] \notin AsciiSpaces /\ s[Len(s)] \notin AsciiSpaces THEN s
    ELSE IF \A i \in 1..Len(s) : s[i] \in AsciiSpaces THEN <<>>
    ELSE SubSeq(s,
                CHOOSE i \in 1..Len(s) :
                    s[i] \notin AsciiSpaces /\ \A j \in 1..(i - 1) : s[j] \in AsciiSpaces,
                CHOOSE i \in 1..Len(s) :
                    s[i] \notin AsciiSpaces /\ \A j \in (i + 1)..Len(s) : s[j] \in AsciiSpaces)

UpperCase == <<"I", "N", "F", "A", "T", "Y">>

LowerCase == <<"i", "n", "f", "a", "t", "y">>

\* the letters of inf, infinity and nan in lower case
Lower(c) ==
    IF \E i \in 1..6 : UpperCase[i] = c
    THEN LowerCase[CHOOSE i \in 1..6 : UpperCase[i] = c]
    ELSE c

LowerAll(s) == [i \in 1..Len(s) |-> Lower(s[i])]

\* the digits before and after the point, both possibly empty but not both,
\* and the exponent
ParseParts(neg, ip, fp, k) ==
    IF AllDigits(ip) /\ AllDigits(fp) /\ Len(ip) + Len(fp) > 0
    THEN [ok |-> TRUE, val |-> DecimalFloat(neg, Significant(ip \o fp), k - Len(fp))]
    ELSE ValueError

\* the place of the first point of u, or past its end
PointAt(u) ==
    IF \A i \in 1..Len(u) : u[i] # "." THEN Len(u) + 1
    ELSE CHOOSE i \in 1..Len(u) : u[i] = "." /\ \A j \in 1..(i - 1) : u[j] # "."

\* the digits and the point; a second point is no digit
ParseMantissa(neg, u, k) ==
    ParseParts(neg, SubSeq(u, 1, PointAt(u) - 1), SubSeq(u, PointAt(u) + 1, Len(u)), k)

\* what follows e or E: a sign and at least one digit
ExponentAllowed(ex) ==
    /\ ex # <<>>
    /\ IF ex[1] \in {"-", "+"} THEN Len(ex) > 1 /\ AllDigits(Tail(ex)) ELSE AllDigits(ex)

\* the exponent digits as a number; beyond nine digits the float is inf or
\* zero as it is for 999999999
ExponentSize(d) == IF Len(Significant(d)) > 9 THEN 999999999 ELSE DigitsToNat(Significant(d))

ExponentValue(ex) ==
    IF ex[1] = "-" THEN -ExponentSize(Tail(ex))
    ELSE IF ex[1] = "+" THEN ExponentSize(Tail(ex))
    ELSE ExponentSize(ex)

\* the place of the first e or E of u, or past its end
ExponentAt(u) ==
    IF \A i \in 1..Len(u) : u[i] \notin {"e", "E"} THEN Len(u) + 1
    ELSE CHOOSE i \in 1..Len(u) :
            u[i] \in {"e", "E"} /\ \A j \in 1..(i - 1) : u[j] \notin {"e", "E"}

\* a decimal number with an optional exponent
ParseNumber(neg, mantissa, hasExponent, ex) ==
    IF hasExponent /\ ~ExponentAllowed(ex) THEN ValueError
    ELSE ParseMantissa(neg, mantissa, IF hasExponent THEN ExponentValue(ex) ELSE 0)

\* inf, infinity or nan in any case
ParseInfOrNan(neg, u) ==
    IF LowerAll(u) \in {<<"i", "n", "f">>, <<"i", "n", "f", "i", "n", "i", "t", "y">>}
    THEN [ok |-> TRUE, val |-> Infinity(neg)]
    ELSE IF LowerAll(u) = <<"n", "a", "n">> THEN [ok |-> TRUE, val |-> NaN]
    ELSE ValueError

\* the string after its sign
ParseUnsigned(neg, u) ==
    IF u # <<>> /\ Lower(u[1]) \in {"i", "n"} THEN ParseInfOrNan(neg, u)
    ELSE ParseNumber(neg, SubSeq(u, 1, ExponentAt(u) - 1), ExponentAt(u) <= Len(u),
                     SubSeq(u, ExponentAt(u) + 1, Len(u)))

\* float_from_string_inner: the string without the spaces around it
ParseStripped(t) ==
    IF t = <<>> THEN ValueError
    ELSE ParseUnsigned(t[1] = "-", IF t[1] \in {"-", "+"} THEN Tail(t) ELSE t)

WithoutUnderscores(a) ==
    IF \A i \in 1..Len(a) : a[i] # "_" THEN a ELSE SelectSeq(a, IsNoUnderscore)

\* the string with its digits and spaces in ASCII
ParseAscii(a) ==
    IF UnderscoresAllowed(a) THEN ParseStripped(StripSpaces(WithoutUnderscores(a)))
    ELSE ValueError

\* PyUnicode_IS_ASCII: every character is under 128
IsAscii(s) == \A i \in 1..Len(s) : Len(s[i]) = 1 \/ CodePoint(s[i]) < 128

\* float(s) of a str s or of None
ParseFloat(s) ==
    IF s = None THEN TypeError
    ELSE IF s = <<>> THEN ValueError
    ELSE ParseAscii(IF IsAscii(s) THEN s ELSE TransformDecimalAndSpaceToASCII(s))

----------------------------------------------------------------------------
(* convert_memory_to_mib, convert_cpu_to_m *)

\* `return x`: the call ends normally (raised = FALSE) with value x
Return(v) == [raised |-> FALSE, val |-> v]

\* an exception leaves the call
Raise(v) == [raised |-> TRUE, val |-> v]

\* try: return float(s) * mult / except ValueError: return 0
ScaledOrZero(p, mult) ==
    IF p.ok THEN Return(FloatMul(p.val, mult))
    ELSE IF p = ValueError THEN Return(RZero)
    ELSE Raise(RZero)

TryFloat(s, mult) == ScaledOrZero(ParseFloat(s), mult)

\* the table with decimal (1000-based) factors for Gi and Ti
MEMORY_MULTIPLIERS_4_decimal ==
    << [unit |-> <<"K", "i">>, mult |-> Rat(1, 1024)],
       [unit |-> <<"M", "i">>, mult |-> RInt(1)],
       [unit |-> <<"G", "i">>, mult |-> RInt(1000)],
       [unit |-> <<"T", "i">>, mult |-> RInt(1000 * 1000)] >>

\* MEMORY_MULTIPLIERS of limitpython and limitsreq, in the dict's order
MEMORY_MULTIPLIERS_4 ==
    << [unit |-> <<"K", "i">>, mult |-> Rat(1, 1024)],
       [unit |-> <<"M", "i">>, mult |-> RInt(1)],
       [unit |-> <<"G", "i">>, mult |-> RInt(1024)],
       [unit |-> <<"T", "i">>, mult |-> RInt(1024 * 1024)] >>

\* MEMORY_MULTIPLIERS of namespacelimitsreq, node_auditor,
\* node_capacity_reporter and ns_resource_report, in the dict's order
MEMORY_MULTIPLIERS_8 ==
    << [unit |-> <<"K", "i">>, mult |-> Rat(1, 1024)],
       [unit |-> <<"M", "i">>, mult |-> RInt(1)],
       [unit |-> <<"G", "i">>, mult |-> RInt(1024)],
       [unit |-> <<"T", "i">>, mult |-> RInt(1024 * 1024)],
       [unit |-> <<"K">>, mult |-> Rat(1, 1024)],
       [unit |-> <<"M">>, mult |-> RInt(1)],
       [unit |-> <<"G">>, mult |-> RInt(1024)],
       [unit |-> <<"T">>, mult |-> RInt(1024 * 1024)] >>

\* for unit, multiplier in MEMORY_MULTIPLIERS.items(): if s.endswith(unit): ...
\* the first unit of the table that ends s decides; matched = FALSE when none does
RECURSIVE UnitLoop(_, _, _)
UnitLoop(s, table, i) ==
    IF i > Len(table) THEN [matched |-> FALSE, ret |-> Return(RZero)]
    ELSE IF EndsWith(s, table[i].unit)
         THEN [matched |-> TRUE,
               ret |-> TryFloat(DropLast(s, Len(table[i].unit)), table[i].mult)]
         ELSE UnitLoop(s, table, i + 1)

\* the return inside the loop when a unit matched, else what follows the loop
OrElse(loop, rest) == IF loop.matched THEN loop.ret ELSE rest

\* limitpython, lines 29-34: the trailing G, M or K is rewritten (with every
\* other occurrence of that letter) to Gi, Mi, Ki
RewriteAlias(v) ==
    IF EndsWith(v, <<"G">>) THEN Replace(v, "G", <<"G", "i">>)
    ELSE IF EndsWith(v, <<"M">>) THEN Replace(v, "M", <<"M", "i">>)
    ELSE IF EndsWith(v, <<"K">>) THEN Replace(v, "K", <<"K", "i">>)
    ELSE v

\* limitpython, lines 37-49: the second loop and the bare number, on the
\* rewritten string
SecondLoop(v2) == OrElse(UnitLoop(v2, MEMORY_MULTIPLIERS_4, 1), TryFloat(v2, RInt(1)))

\* limitpython.convert_memory_to_mib
ConvertMemory_limitpython(v) ==
    IF Falsy(v) THEN Return(RZero)
    ELSE OrElse(UnitLoop(v, MEMORY_MULTIPLIERS_4, 1), SecondLoop(RewriteAlias(v)))

\* limitsreq.convert_memory_to_mib
ConvertMemory_limitsreq(v) ==
    IF Falsy(v) THEN Return(RZero)
    ELSE OrElse(UnitLoop(v, MEMORY_MULTIPLIERS_4, 1), TryFloat(v, RInt(1)))

\* the shared body reading a string with no unit as bytes in every variant
ConvertMemoryStripI_bytes(v, bare) ==
    IF Falsy(v) THEN Return(RZero)
    ELSE OrElse(UnitLoop(Replace(v, "i", <<>>), MEMORY_MULTIPLIERS_8, 1),
                TryFloat(v, Rat(1, 1024 * 1024)))

\* the body shared by the four variants that strip every 'i' first; bare is
\* the factor applied to a string with no unit
ConvertMemoryStripI(v, bare) ==
    IF Falsy(v) THEN Return(RZero)
    ELSE OrElse(UnitLoop(Replace(v, "i", <<>>), MEMORY_MULTIPLIERS_8, 1), TryFloat(v, bare))

\* namespacelimitsreq.convert_memory_to_mib: a bare number is MiB
ConvertMemory_namespacelimitsreq(v) == ConvertMemoryStripI(v, RInt(1))

\* node_auditor.convert_memory_to_mib: a bare number is MiB
ConvertMemory_node_auditor(v) == ConvertMemoryStripI(v, RInt(1))

\* node_capacity_reporter.convert_memory_to_mib: a bare number is MiB
ConvertMemory_node_capacity_reporter(v) == ConvertMemoryStripI(v, RInt(1))

\* ns_resource_report.convert_memory_to_mib: a bare number is bytes
ConvertMemory_ns_resource_report(v) == ConvertMemoryStripI(v, Rat(1, 1024 * 1024))

MemoryVariants ==
    {"limitpython", "limitsreq", "namespacelimitsreq", "node_auditor",
     "node_capacity_reporter", "ns_resource_report"}

convert_memory_to_mib(var, v) ==
    CASE var = "limitpython" -> ConvertMemory_limitpython(v)
      [] var = "limitsreq" -> ConvertMemory_limitsreq(v)
      [] var = "namespacelimitsreq" -> ConvertMemory_namespacelimitsreq(v)
      [] var = "node_auditor" -> ConvertMemory_node_auditor(v)
      [] var = "node_capacity_reporter" -> ConvertMemory_node_capacity_reporter(v)
      [] var = "ns_resource_report" -> ConvertMemory_ns_resource_report(v)

\* convert_cpu_to_m returning a value in whole cores unscaled
ConvertCpu_unscaled(v) ==
    IF Falsy(v) THEN Return(RZero)
    ELSE IF EndsWith(v, <<"m">>) THEN TryFloat(DropLast(v, 1), RInt(1))
    ELSE TryFloat(v, RInt(1))

\* convert_cpu_to_m: the same statements in limitpython, limitsreq,
\* namespacelimitsreq and ns_resource_report
ConvertCpu(v) ==
    IF Falsy(v) THEN Return(RZero)
    ELSE IF EndsWith(v, <<"m">>) THEN TryFloat(DropLast(v, 1), RInt(1))
    ELSE TryFloat(v, RInt(1000))

CpuVariants == {"limitpython", "limitsreq", "namespacelimitsreq", "ns_resource_report"}

convert_cpu_to_m(var, v) == ConvertCpu(v)

----------------------------------------------------------------------------
(* The arguments the parsers are called with *)

\* "{n}" for n = q/4: sign, integer part, and the quarters as decimals
RECURSIVE NatToStr(_)
NatToStr(k) ==
    IF k < 10 THEN <<DigitChars[k + 1]>>
    ELSE NatToStr(k \div 10) \o <<DigitChars[(k % 10) + 1]>>

Format(q) ==
    LET a == Abs(q)
        frac == CASE a % 4 = 0 -> <<>>
                  [] a % 4 = 1 -> <<".", "2", "5">>
                  [] a % 4 = 2 -> <<".", "5">>
                  [] a % 4 = 3 -> <<".", "7", "5">>
    IN  (IF q < 0 THEN <<"-">> ELSE <<>>) \o NatToStr(a \div 4) \o frac

\* "{n}" with an exponent: 10 n and e-1
FormatExponent(q) == Format(10 * q) \o <<"e", "-", "1">>

Numerals == (-MaxQuarters)..MaxQuarters

NoNumeral == MaxQuarters + 1000

BinarySuffixes == {<<"K", "i">>, <<"M", "i">>, <<"G", "i">>, <<"T", "i">>}

DecimalSuffixes == {<<"K">>, <<"M">>, <<"G">>, <<"T">>}

Suffixes == BinarySuffixes \cup DecimalSuffixes \cup {<<>>, <<"m">>}

Alphabet == {"1", "5", "-", ".", "K", "M", "G", "T", "i", "m"}

RawStrings == UNION {[1..k -> Alphabet] : k \in 0..MaxLen} \cup {None}

\* strings float() accepts or rejects for another reason than the characters
\* of Alphabet: exponents, inf and nan, spaces, underscores, digits and
\* spaces outside ASCII, a decimal that is no binary fraction, a negative
\* zero
FloatLiterals ==
    {<<"1", "e", "3">>, <<"1", "E", "3">>, <<"1", "e", "-", "3">>, <<"1", "e">>, <<"e", "1">>,
     <<"1", "e", "4", "0", "0">>, <<"1", "e", "-", "4", "0", "0">>,
     <<"i", "n", "f">>, <<"-", "i", "n", "f">>, <<"I", "n", "f", "i", "n", "i", "t", "y">>,
     <<"n", "a", "n">>, <<"N", "a", "N">>,
     <<" ", "1">>, <<"1", " ">>, <<"\t", "1">>, <<"U+00A0", "1">>,
     <<"1", "_", "0">>, <<"1", "_", "_", "0">>, <<"_", "1">>,
     <<"U+0661">>, <<"U+FF11", "U+FF15">>, <<"U+0967">>, <<"U+2002", "1">>,
     <<"1", ".", "0", "1", "5">>, <<"-", "0">>}

LiteralStrings == {l \o s : l \in FloatLiterals, s \in Suffixes}

----------------------------------------------------------------------------
(* Values of the variables of the scripts that do not run *)

ZeroTotals == [cpu_req |-> RZero, cpu_lim |-> RZero, mem_req |-> RZero, mem_lim |-> RZero]

NoReport == [printed |-> FALSE, totals |-> ZeroTotals, replicas |-> 0]

IdleWorkloads ==
    /\ script = "none" /\ items = <<>> /\ idx = 0
    /\ totals = ZeroTotals /\ total_replicas = 0
    /\ report_data = <<>> /\ skipped = <<>> /\ report = NoReport

\* the dict of lines 222-229 and of the two error returns
PodsResult(pods, t, no_req, error) ==
    [pods |-> pods, cpu_req_m |-> t.cpu_req, cpu_lim_m |-> t.cpu_lim,
     mem_req_mib |-> t.mem_req, mem_lim_mib |-> t.mem_lim,
     no_req_pods |-> no_req, error |-> error]

NotReturned == PodsResult(0, ZeroTotals, 0, <<"not returned">>)

IdlePods ==
    /\ pod_items = <<>> /\ pod_idx = 0 /\ pods_count = 0 /\ no_req_pods = 0
    /\ pod_totals = ZeroTotals /\ ns_result = NotReturned

\* the dict {'cpu_m': ..., 'mem_mib': ...} of line 264
TopRecord(cpu_m, mem_mib) == [available |-> TRUE, cpu_m |-> cpu_m, mem_mib |-> mem_mib]

\* the None of lines 246 and 262
TopNone == [available |-> FALSE, cpu_m |-> RZero, mem_mib |-> RZero]

ZeroTop == [cpu_m |-> RZero, mem_mib |-> RZero]

IdleTop ==
    /\ top_lines = <<>> /\ top_idx = 0 /\ top_totals = ZeroTop
    /\ parsed = 0 /\ top_result = TopNone

NoNsReport == [printed |-> FALSE]

\* no namespace is under way in the loop of main
NotFetched == [data |-> None]

\* argparse without options: no --namespace, no --skip-system, no --exclude
MainArgs(namespace, skip_system, exclude) ==
    [namespace |-> namespace, skip_system |-> skip_system, exclude |-> exclude]

NoArgs == MainArgs(None, FALSE, <<>>)

IdleReport ==
    /\ namespaces = <<>> /\ ns_idx = 0 /\ ns_data = <<>>
    /\ show_top = FALSE /\ sort_by = "none" /\ oc_results = <<>> /\ ns_report = NoNsReport
    /\ args = NoArgs /\ cluster = <<>> /\ fetched = NotFetched /\ oc_calls = <<>> /\ blad = <<>>

NoNodeReport == [printed |-> FALSE]

NoOcError == [resource |-> "none", exc |-> "none"]

IdleNodes ==
    /\ cluster_nodes = <<>> /\ cluster_pods = <<>> /\ node_metrics = <<>>
    /\ np_items = <<>> /\ np_idx = 0 /\ unmatched_pods_count = 0
    /\ info_line = None /\ node_report = NoNodeReport /\ oc_error = NoOcError

IdleRuns == run_no = 1 /\ first_run = None

IdleParse ==
    /\ fn = "none" /\ variant = "none" /\ value_str = <<>>
    /\ numeral = NoNumeral /\ suffix = <<>> /\ result = Return(RZero)

----------------------------------------------------------------------------
(* Calls of the parsers *)

InitParse ==
    /\ pc = "call"
    /\ fn \in {"mem", "cpu"}
    /\ variant \in (IF fn = "mem" THEN MemoryVariants ELSE CpuVariants)
    /\ \/ /\ numeral \in Numerals
          /\ suffix \in Suffixes
          /\ value_str \in {Format(numeral) \o suffix, FormatExponent(numeral) \o suffix}
       \/ /\ numeral = NoNumeral
          /\ suffix = <<>>
          /\ value_str \in RawStrings \cup LiteralStrings
    /\ result = Return(RZero)
    /\ IdleWorkloads
    /\ IdlePods
    /\ IdleTop
    /\ IdleReport
    /\ IdleNodes
    /\ IdleRuns

CallMemory ==
    /\ pc = "call" /\ fn = "mem"
    /\ result' = convert_memory_to_mib(variant, value_str)
    /\ pc' = "returned"
    /\ UNCHANGED <<fn, variant, value_str, numeral, suffix>>
    /\ UNCHANGED <<workloadVars, podVars, topVars, reportVars, nodeVars, runVars>>

CallCpu ==
    /\ pc = "call" /\ fn = "cpu"
    /\ result' = convert_cpu_to_m(variant, value_str)
    /\ pc' = "returned"
    /\ UNCHANGED <<fn, variant, value_str, numeral, suffix>>
    /\ UNCHANGED <<workloadVars, podVars, topVars, reportVars, nodeVars, runVars>>

NextParse == CallMemory \/ CallCpu

SpecParse == InitParse /\ [][NextParse]_vars

----------------------------------------------------------------------------
(* Properties of the parsers, checked under SpecParse *)

\* n = q/4 in the unit of the suffix, as MiB
ExpectedMiB(q, sfx) ==
    CASE sfx \in {<<"K", "i">>, <<"K">>} -> Rat(q, 4 * 1024)
      [] sfx \in {<<"M", "i">>, <<"M">>} -> Rat(q, 4)
      [] sfx \in {<<"G", "i">>, <<"G">>} -> Rat(q * 1024, 4)
      [] sfx \in {<<"T", "i">>, <<"T">>} -> Rat(q * 1024 * 1024, 4)

\* C1: in every variant of convert_memory_to_mib, "{n}Gi" resolves to n*1024
\* MiB, "{n}Mi" to n, "{n}Ki" to n/1024 and "{n}Ti" to n*1024*1024, for every
\* number n.
C1_BinarySuffixes ==
    (pc = "returned" /\ fn = "mem" /\ numeral # NoNumeral /\ suffix \in BinarySuffixes)
        => result = Return(ExpectedMiB(numeral, suffix))

\* "1.5Gi" has been resolved to 1536 MiB by ns_resource_report
C1_Witness ==
    /\ pc = "returned" /\ fn = "mem" /\ variant = "ns_resource_report"
    /\ numeral = 6 /\ value_str = <<"1", ".", "5", "G", "i">>
    /\ result = Return(RInt(1536))

\* C2: in every variant of convert_memory_to_mib, "{n}K", "{n}M", "{n}G" and
\* "{n}T" resolve to the same MiB value as "{n}Ki", "{n}Mi", "{n}Gi", "{n}Ti".
C2_DecimalAliases ==
    (pc = "returned" /\ fn = "mem" /\ numeral # NoNumeral /\ suffix \in DecimalSuffixes)
        => result = Return(ExpectedMiB(numeral, suffix))

\* C3: in every variant of convert_cpu_to_m, "{n}m" resolves to n millicores
\* and the bare "{n}" to n*1000 millicores, for every number n.
C3_CpuUnits ==
    (pc = "returned" /\ fn = "cpu" /\ numeral # NoNumeral)
        => /\ suffix = <<"m">> => result = Return(Rat(numeral, 4))
           /\ suffix = <<>> => result = Return(Rat(numeral * 1000, 4))

\* "0.5" has been resolved to 500 millicores
C3_Witness ==
    /\ pc = "returned" /\ fn = "cpu" /\ numeral = 2 /\ suffix = <<>>
    /\ value_str = <<"0", ".", "5">>
    /\ result = Return(RInt(500))

\* the string is no number, and stays none when a recognised unit is taken off
NumericPartUnparseable(f, s) ==
    /\ ~ParseFloat(s).ok
    /\ \A u \in (IF f = "mem" THEN BinarySuffixes \cup DecimalSuffixes ELSE {<<"m">>}) :
           EndsWith(s, u) => ~ParseFloat(DropLast(s, Len(u))).ok

\* C4: convert_cpu_to_m and convert_memory_to_mib never raise, and return 0
\* for an empty or absent input and for every string whose numeric part
\* cannot be parsed, with or without a recognised suffix.
C4_TotalZeroOnFailure ==
    pc = "returned"
        => /\ ~result.raised
           /\ (Falsy(value_str) \/ NumericPartUnparseable(fn, value_str))
                  => result.val = RZero

\* C5: every value returned by convert_cpu_to_m and convert_memory_to_mib is
\* non-negative, for every input string.
C5_NonNegative == pc = "returned" => ~FloatLess(result.val, RZero)

----------------------------------------------------------------------------
(* Workload objects as the cluster returns them *)

\* a key that the dict does not hold
Absent == <<"absent">>

\* d.get(key, default) on a value that is the key's string or Absent
DictGet(field, default) == IF field = Absent THEN default ELSE field

\* requests 500m / 256Mi, no limits
ContainerA ==
    [requests |-> [cpu |-> <<"5", "0", "0", "m">>, memory |-> <<"2", "5", "6", "M", "i">>],
     limits |-> [cpu |-> Absent, memory |-> Absent]]

\* requests 0.5 / 1Gi, limits 1 / 2Gi
ContainerB ==
    [requests |-> [cpu |-> <<"0", ".", "5">>, memory |-> <<"1", "G", "i">>],
     limits |-> [cpu |-> <<"1">>, memory |-> <<"2", "G", "i">>]]

\* no resources at all
ContainerC ==
    [requests |-> [cpu |-> Absent, memory |-> Absent],
     limits |-> [cpu |-> Absent, memory |-> Absent]]

\* spec.template.spec.containers of the workloads
Templates == {<<ContainerB>>, <<ContainerA, ContainerB>>, <<ContainerC>>}

\* spec.replicas: <<>> when the key is missing, <<r>> when it holds r
ReplicaFields == {<<>>, <<-1>>, <<0>>, <<2>>}

\* the kinds each script fetches; limitsreq gets Deployments as V1Deployment
\* objects and DeploymentConfigs as dicts, the other two get dicts only
KindsOf(scr) ==
    CASE scr = "limitpython" -> {"Deployment", "DaemonSet"}
      [] scr = "limitsreq" -> {"V1Deployment", "DeploymentConfig"}
      [] scr = "namespacelimitsreq" -> {"Deployment", "DeploymentConfig"}

Workloads(scr) == [kind : KindsOf(scr), replicas : ReplicaFields, containers : Templates]

\* limitsreq processes deployments + deployment_configs (line 106): the
\* V1Deployment objects come before the DeploymentConfig dicts
InFetchOrder(scr, its) ==
    scr = "limitsreq"
        => \A i, j \in 1..Len(its) :
              (its[i].kind = "DeploymentConfig" /\ its[j].kind = "V1Deployment") => j < i

ItemLists(scr) ==
    {its \in UNION {[1..k -> Workloads(scr)] : k \in 0..MaxItems} : InFetchOrder(scr, its)}

\* item.get('spec', {}).get('replicas', 0); item.spec.replicas if not None else 0
ReplicasOf(item) == IF item.replicas = <<>> THEN 0 ELSE item.replicas[1]

----------------------------------------------------------------------------
(* One pod of the template: the loop over its containers *)

AddTotals(a, b) ==
    [cpu_req |-> FloatAdd(a.cpu_req, b.cpu_req), cpu_lim |-> FloatAdd(a.cpu_lim, b.cpu_lim),
     mem_req |-> FloatAdd(a.mem_req, b.mem_req), mem_lim |-> FloatAdd(a.mem_lim, b.mem_lim)]

ScaleTotals(a, r) ==
    [cpu_req |-> FloatMul(a.cpu_req, RInt(r)), cpu_lim |-> FloatMul(a.cpu_lim, RInt(r)),
     mem_req |-> FloatMul(a.mem_req, RInt(r)), mem_lim |-> FloatMul(a.mem_lim, RInt(r))]

\* the four converted fields of one container read from a dict;
\* default is what .get returns for a missing key ('' or None)
ContainerDict(scr, c, default) ==
    [cpu_req |-> convert_cpu_to_m(scr, DictGet(c.requests.cpu, default)).val,
     cpu_lim |-> convert_cpu_to_m(scr, DictGet(c.limits.cpu, default)).val,
     mem_req |-> convert_memory_to_mib(scr, DictGet(c.requests.memory, default)).val,
     mem_lim |-> convert_memory_to_mib(scr, DictGet(c.limits.memory, default)).val]

\* limitsreq on a V1Container: resources.requests / resources.limits is used
\* when it is a non-empty dict; otherwise the code calls resources.get(...),
\* which a V1ResourceRequirements object does not have (AttributeError)
ObjectFieldsRaise(c) ==
    \/ (c.requests.cpu = Absent /\ c.requests.memory = Absent)
    \/ (c.limits.cpu = Absent /\ c.limits.memory = Absent)

\* for container in containers: pod_* += convert(...)
\* [raised, sums]: raised when reading a container's fields raised
RECURSIVE ContainerLoop(_, _, _, _, _)
ContainerLoop(scr, kind, containers, i, acc) ==
    IF i > Len(containers) THEN [raised |-> FALSE, sums |-> acc]
    ELSE IF scr = "limitsreq" /\ kind = "V1Deployment" /\ ObjectFieldsRaise(containers[i])
         THEN [raised |-> TRUE, sums |-> acc]
    ELSE ContainerLoop(scr, kind, containers, i + 1,
             AddTotals(acc, ContainerDict(scr, containers[i],
                                          IF scr = "limitsreq" THEN None ELSE <<>>)))

----------------------------------------------------------------------------
(* One iteration of the loop over the items, per script.  st holds the      *)
(* variables the loop writes; i is the position of the item.                *)

LoopState(t, tr, rd, sk, cr) ==
    [totals |-> t, total_replicas |-> tr, report_data |-> rd, skipped |-> sk, crashed |-> cr]

\* total_* += pod_* * replicas; an exception raised in the container loop
\* leaves the function
AddPod(st, pod, replicas) ==
    IF pod.raised THEN [st EXCEPT !.crashed = TRUE]
    ELSE [st EXCEPT !.totals = AddTotals(@, ScaleTotals(pod.sums, replicas))]

\* StepLimitpython without the DaemonSet branch of lines 129-131
StepLimitpython_sumsDaemonSet(item, i, st) ==
    IF ReplicasOf(item) <= 0 THEN st
    ELSE AddPod(st, ContainerLoop("limitpython", item.kind, item.containers, 1, ZeroTotals),
                ReplicasOf(item))

\* limitpython.generate_resource_report, lines 109-163
StepLimitpython(item, i, st) ==
    IF item.kind = "DaemonSet" THEN [st EXCEPT !.skipped = Append(@, i)]
    ELSE IF ReplicasOf(item) <= 0 THEN st
    ELSE AddPod(st, ContainerLoop("limitpython", item.kind, item.containers, 1, ZeroTotals),
                ReplicasOf(item))

\* limitsreq.generate_resource_report, lines 116-157
StepLimitsreq(item, i, st) ==
    IF ReplicasOf(item) <= 0 THEN st
    ELSE AddPod(st, ContainerLoop("limitsreq", item.kind, item.containers, 1, ZeroTotals),
                ReplicasOf(item))

\* namespacelimitsreq, lines 122-142: current_* = pod_* * replicas is added
\* to the totals and shown in the workload's row
AddCurrent(st, i, replicas, current) ==
    [st EXCEPT !.totals = AddTotals(@, current),
               !.total_replicas = @ + replicas,
               !.report_data = Append(@, [item |-> i, replicas |-> replicas,
                                          current |-> current])]

\* namespacelimitsreq.generate_deployment_report, lines 94-142
StepNamespacelimitsreq(item, i, st) ==
    AddCurrent(st, i, ReplicasOf(item),
               ScaleTotals(ContainerLoop("namespacelimitsreq", item.kind, item.containers,
                                         1, ZeroTotals).sums,
                           ReplicasOf(item)))

Step(scr, item, i, st) ==
    CASE scr = "limitpython" -> StepLimitpython(item, i, st)
      [] scr = "limitsreq" -> StepLimitsreq(item, i, st)
      [] scr = "namespacelimitsreq" -> StepNamespacelimitsreq(item, i, st)

----------------------------------------------------------------------------
(* The three workload reports *)

WorkloadScripts == {"limitpython", "limitsreq", "namespacelimitsreq"}

InitWorkloads ==
    /\ pc = "start"
    /\ script \in WorkloadScripts
    /\ items = <<>> /\ idx = 0
    /\ totals = ZeroTotals /\ total_replicas = 0
    /\ report_data = <<>> /\ skipped = <<>> /\ report = NoReport
    /\ IdleParse
    /\ IdlePods
    /\ IdleTop
    /\ IdleReport
    /\ IdleNodes
    /\ IdleRuns

\* get_oc_json / list_namespaced_deployment: the query fails and the script
\* ends without a report (sys.exit(1), or return in limitsreq)
FetchFails ==
    /\ pc = "start"
    /\ pc' = "exit"
    /\ UNCHANGED <<parseVars, podVars, topVars, reportVars, nodeVars, runVars, workloadVars>>

\* the query returns the items and the totals start at zero (limitpython
\* lines 102-105, limitsreq 77-80, namespacelimitsreq 83-90); limitsreq returns
\* at once on an empty list; a second invocation reads the same items
FetchItems ==
    /\ pc = "start"
    /\ \E its \in (IF run_no = 1 THEN ItemLists(script) ELSE {items}) :
          /\ items' = its
          /\ pc' = IF script = "limitsreq" /\ its = <<>> THEN "exit" ELSE "loop"
    /\ idx' = 0 /\ totals' = ZeroTotals /\ total_replicas' = 0
    /\ report_data' = <<>> /\ skipped' = <<>>
    /\ UNCHANGED <<parseVars, podVars, topVars, reportVars, nodeVars, runVars, script, report>>

\* one iteration of `for item in ...`
ProcessItem ==
    /\ pc = "loop" /\ idx < Len(items)
    /\ \E st \in {Step(script, items[idx + 1], idx + 1,
                        LoopState(totals, total_replicas, report_data, skipped, FALSE))} :
           /\ totals' = st.totals
           /\ total_replicas' = st.total_replicas
           /\ report_data' = st.report_data
           /\ skipped' = st.skipped
           /\ pc' = IF st.crashed THEN "crashed" ELSE "loop"
           /\ idx' = IF st.crashed THEN idx ELSE idx + 1
    /\ UNCHANGED <<parseVars, podVars, topVars, reportVars, nodeVars, runVars, script, items, report>>

\* namespacelimitsreq, line 163: report_data.append(["---"] * 6)
SeparatorRow == [item |-> <<"---">>, replicas |-> <<"---">>, current |-> <<"---">>]

\* namespacelimitsreq, lines 153-164: summary_row, of total_replicas and the
\* four totals
SummaryRow(tr, t) == [item |-> <<"**SUMA DLA NAMESPACE**">>, replicas |-> tr, current |-> t]

\* limitpython, lines 177-181, and limitsreq, lines 170-174: round(total)
\* of an inf raises OverflowError and of a nan ValueError
RoundRaises(scr, t) ==
    /\ scr \in {"limitpython", "limitsreq"}
    /\ \E f \in DOMAIN t : ~IsFinite(t[f])

\* after the loop: the totals are printed; namespacelimitsreq appends the
\* separator and the summary row to report_data and prints the table
PrintReport ==
    /\ pc = "loop" /\ idx = Len(items)
    /\ report' = IF RoundRaises(script, totals) THEN report
                 ELSE [printed |-> TRUE, totals |-> totals, replicas |-> total_replicas]
    /\ report_data' = IF script = "namespacelimitsreq"
                      THEN report_data \o <<SeparatorRow, SummaryRow(total_replicas, totals)>>
                      ELSE report_data
    /\ pc' = IF RoundRaises(script, totals) THEN "crashed" ELSE "done"
    /\ UNCHANGED <<parseVars, podVars, topVars, reportVars, nodeVars, runVars, script, items, idx, totals, total_replicas,
                   skipped>>

NextWorkloads == FetchFails \/ FetchItems \/ ProcessItem \/ PrintReport

SpecWorkloads == InitWorkloads /\ [][NextWorkloads]_vars

----------------------------------------------------------------------------
(* Properties of the workload reports *)

FieldNames == {"cpu_req", "cpu_lim", "mem_req", "mem_lim"}

\* the parsed value of one field of one container, a missing field read as
\* the script's default
FieldValue(scr, c, f) ==
    CASE f = "cpu_req" -> convert_cpu_to_m(scr, DictGet(c.requests.cpu, <<>>)).val
      [] f = "cpu_lim" -> convert_cpu_to_m(scr, DictGet(c.limits.cpu, <<>>)).val
      [] f = "mem_req" -> convert_memory_to_mib(scr, DictGet(c.requests.memory, <<>>)).val
      [] f = "mem_lim" -> convert_memory_to_mib(scr, DictGet(c.limits.memory, <<>>)).val

\* the sum of one field over the containers i..Len(containers)
RECURSIVE SumField(_, _, _, _)
SumField(scr, containers, i, f) ==
    IF i > Len(containers) THEN RZero
    ELSE RAdd(FieldValue(scr, containers[i], f), SumField(scr, containers, i + 1, f))

\* the workload total the claim states: container sum times replica count;
\* the DaemonSets of limitpython are left out of the sums
WorkloadTotal(scr, item) ==
    [f \in FieldNames |->
        IF item.kind = "DaemonSet" THEN RZero
        ELSE RMul(SumField(scr, item.containers, 1, f), RInt(ReplicasOf(item)))]

\* the sum of the workload totals of the first n items
RECURSIVE NamespaceTotal(_, _, _)
NamespaceTotal(scr, its, n) ==
    IF n = 0 THEN ZeroTotals
    ELSE AddTotals(NamespaceTotal(scr, its, n - 1), WorkloadTotal(scr, its[n]))

AllReplicasNonNegative == \A i \in 1..Len(items) : ReplicasOf(items[i]) >= 0

\* C6: when every workload's declared replica count r is >= 0, each of the
\* four workload totals is the sum of that field over the template's
\* containers times r, and the namespace total of each field is the sum of
\* the workload totals, in limitpython, limitsreq and namespacelimitsreq
\* (so the loop gets through every workload and reaches the printed totals).
C6_ScalingLaw ==
    (pc \in {"loop", "crashed", "done"} /\ AllReplicasNonNegative)
        => /\ pc # "crashed"
           /\ totals = NamespaceTotal(script, items, idx)
           /\ \A k \in 1..Len(report_data) :
                 k <= Len(items) =>
                     report_data[k].current = WorkloadTotal(script, items[report_data[k].item])
           /\ (pc = "done" => report.totals = NamespaceTotal(script, items, Len(items)))

\* C7: processing a workload whose replica count is <= 0 (zero, missing or
\* negative) leaves the four namespace totals and the replica total as they
\* were, in limitpython, limitsreq and namespacelimitsreq; namespacelimitsreq
\* still appends its row, with an all-zero total.
C7_NoContribution ==
    [][(pc = "loop" /\ idx < Len(items) /\ ReplicasOf(items[idx + 1]) <= 0)
          => /\ totals' = totals
             /\ total_replicas' = total_replicas
             /\ pc' = "loop"
             /\ (script = "namespacelimitsreq"
                    => /\ Len(report_data') = Len(report_data) + 1
                       /\ report_data'[Len(report_data')].item = idx + 1
                       /\ report_data'[Len(report_data')].current = ZeroTotals)]_vars

\* the loop of the script run from item i to the end of its
RECURSIVE RunLoop(_, _, _, _)
RunLoop(scr, its, i, st) ==
    IF i > Len(its) \/ st.crashed THEN st
    ELSE RunLoop(scr, its, i + 1, Step(scr, its[i], i, st))

NotDaemonSet(item) == item.kind # "DaemonSet"

DaemonSetPositions(its, n) == {i \in 1..n : its[i].kind = "DaemonSet"}

SeqRange(sq) == {sq[k] : k \in 1..Len(sq)}

\* C8: in limitpython, whatever replicas and container resources the
\* DaemonSets declare, the four printed totals equal the totals of a run on
\* the item list with the DaemonSets removed, and each DaemonSet met so far
\* is noted as skipped, once.
C8_DaemonSetSkipped ==
    (script = "limitpython" /\ pc \in {"loop", "done"})
        => /\ SeqRange(skipped) = DaemonSetPositions(items, idx)
           /\ Len(skipped) = Cardinality(DaemonSetPositions(items, idx))
           /\ (pc = "done"
                  => /\ report.printed
                     /\ report.totals =
                           RunLoop("limitpython", SelectSeq(items, NotDaemonSet), 1,
                                   LoopState(ZeroTotals, 0, <<>>, <<>>, FALSE)).totals)

\* a finished limitpython run over a DaemonSet with replicas 2 and a
\* Deployment with replicas 2, both of ContainerB: only the Deployment counts
C8_Witness ==
    /\ script = "limitpython" /\ pc = "done"
    /\ items = <<[kind |-> "DaemonSet", replicas |-> <<2>>, containers |-> <<ContainerB>>],
                 [kind |-> "Deployment", replicas |-> <<2>>, containers |-> <<ContainerB>>]>>
    /\ skipped = <<1>>
    /\ report.totals = [cpu_req |-> RInt(1000), cpu_lim |-> RInt(2000),
                        mem_req |-> RInt(2048), mem_lim |-> RInt(4096)]

----------------------------------------------------------------------------
(* ns_resource_report.get_running_pods_resources *)

\* requests cpu "0", nothing else: a declared request that parses to 0
ContainerZero ==
    [requests |-> [cpu |-> <<"0">>, memory |-> Absent],
     limits |-> [cpu |-> Absent, memory |-> Absent]]

\* limits 1 / 2Gi and no requests
ContainerLimitsOnly ==
    [requests |-> [cpu |-> Absent, memory |-> Absent],
     limits |-> [cpu |-> <<"1">>, memory |-> <<"2", "G", "i">>]]

\* spec.containers of the Running pods
PodSpecs ==
    {<<ContainerA, ContainerB>>, <<ContainerC>>, <<ContainerZero>>, <<ContainerLimitsOnly>>,
     <<ContainerC, ContainerA>>, <<ContainerLimitsOnly, ContainerC>>, <<>>}

PodLists == UNION {[1..k -> PodSpecs] : k \in 0..MaxPods}

\* `if cpu_req or mem_req` with only the limits read as well
HasRequest_orLimit(c) ==
    \/ ~Falsy(DictGet(c.requests.cpu, <<>>)) \/ ~Falsy(DictGet(c.requests.memory, <<>>))
    \/ ~Falsy(DictGet(c.limits.cpu, <<>>)) \/ ~Falsy(DictGet(c.limits.memory, <<>>))

\* line 207: if cpu_req or mem_req
HasRequest(c) ==
    ~Falsy(DictGet(c.requests.cpu, <<>>)) \/ ~Falsy(DictGet(c.requests.memory, <<>>))

\* lines 197-215: for container in containers; acc holds the four totals
\* and pod_has_req
RECURSIVE PodContainerLoop(_, _, _)
PodContainerLoop(containers, i, acc) ==
    IF i > Len(containers) THEN acc
    ELSE PodContainerLoop(containers, i + 1,
             [totals |-> AddTotals(acc.totals,
                                   ContainerDict("ns_resource_report", containers[i], <<>>)),
              pod_has_req |-> acc.pod_has_req \/ HasRequest(containers[i])])

\* lines 191 and 217-218: pods_count += 1; if not pod_has_req: no_req_pods += 1
CountPod(st, after) ==
    [pods_count |-> st.pods_count + 1,
     totals |-> after.totals,
     no_req_pods |-> st.no_req_pods + (IF after.pod_has_req THEN 0 ELSE 1)]

\* StepPod with pods_count advanced once per container
StepPod_countsContainers(containers, st) ==
    [CountPod(st, PodContainerLoop(containers, 1,
                                   [totals |-> st.totals, pod_has_req |-> FALSE]))
        EXCEPT !.pods_count = st.pods_count + Len(containers)]

\* StepPod reading the first container of the pod only
StepPod_firstContainer(containers, st) ==
    CountPod(st, PodContainerLoop(IF containers = <<>> THEN <<>> ELSE <<containers[1]>>, 1,
                                  [totals |-> st.totals, pod_has_req |-> FALSE]))

\* lines 190-218: one iteration of `for pod in data.get('items', [])`
StepPod(containers, st) ==
    CountPod(st, PodContainerLoop(containers, 1,
                                  [totals |-> st.totals, pod_has_req |-> FALSE]))

\* what oc writes to stderr when it ends with rc != 0: nothing, or a message
StderrTexts == {<<>>, <<"F", "o", "r", "b", "i", "d", "d", "e", "n", "\n">>}

\* s.strip(): leading and trailing whitespace removed
RECURSIVE StripLeft(_)
StripLeft(s) ==
    IF s # <<>> /\ IsSpace(Head(s)) THEN StripLeft(Tail(s)) ELSE s

RECURSIVE StripRight(_)
StripRight(s) ==
    IF s # <<>> /\ IsSpace(s[Len(s)]) THEN StripRight(DropLast(s, 1)) ELSE s

Strip(s) == StripRight(StripLeft(s))

\* lines 169-175: 'error': stderr.strip()
PodsFailed(stderr) == PodsResult(0, ZeroTotals, 0, Strip(stderr))

\* line 183: 'blad parsowania JSON'
JsonErrorText == <<"b", "l", "a", "d", " ", "p", "a", "r", "s", "o", "w", "a", "n", "i", "a", " ", "J", "S", "O", "N">>

\* lines 179-184
PodsUndecodable == PodsResult(0, ZeroTotals, 0, JsonErrorText)

InitPods ==
    /\ pc = "get_pods"
    /\ IdlePods
    /\ IdleParse
    /\ IdleWorkloads
    /\ IdleTop
    /\ IdleReport
    /\ IdleNodes
    /\ IdleRuns

\* lines 170-175: oc get pods ended with rc != 0
OcGetPodsFails ==
    /\ pc = "get_pods"
    /\ \E text \in StderrTexts : ns_result' = PodsFailed(text)
    /\ pc' = "returned"
    /\ UNCHANGED <<parseVars, workloadVars, topVars, reportVars, nodeVars, runVars, pod_items, pod_idx, pods_count, no_req_pods,
                   pod_totals>>

\* lines 177-184: stdout is no JSON
JsonDecodeError ==
    /\ pc = "get_pods"
    /\ ns_result' = PodsUndecodable
    /\ pc' = "returned"
    /\ UNCHANGED <<parseVars, workloadVars, topVars, reportVars, nodeVars, runVars, pod_items, pod_idx, pods_count, no_req_pods,
                   pod_totals>>

\* OcGetPods leaving the counters and totals as the last invocation left them
OcGetPods_keepsTotals ==
    /\ pc = "get_pods"
    /\ pod_items' \in (IF run_no = 1 THEN PodLists ELSE {pod_items})
    /\ pod_idx' = 0
    /\ pc' = "pods_loop"
    /\ UNCHANGED <<parseVars, workloadVars, topVars, reportVars, nodeVars, runVars,
                   pods_count, no_req_pods, pod_totals, ns_result>>

\* lines 162-167, 177-178 and 186-191: the Running pods of the namespace are
\* read and the counters and totals start at zero; a second invocation reads
\* the same pods
OcGetPods ==
    /\ pc = "get_pods"
    /\ pod_items' \in (IF run_no = 1 THEN PodLists ELSE {pod_items})
    /\ pod_idx' = 0 /\ pods_count' = 0 /\ no_req_pods' = 0 /\ pod_totals' = ZeroTotals
    /\ pc' = "pods_loop"
    /\ UNCHANGED <<parseVars, workloadVars, topVars, reportVars, nodeVars, runVars, ns_result>>

ProcessPod ==
    /\ pc = "pods_loop" /\ pod_idx < Len(pod_items)
    /\ pod_idx' = pod_idx + 1
    /\ \E st \in {StepPod(pod_items[pod_idx + 1],
                          [pods_count |-> pods_count, totals |-> pod_totals,
                           no_req_pods |-> no_req_pods])} :
           /\ pods_count' = st.pods_count
           /\ pod_totals' = st.totals
           /\ no_req_pods' = st.no_req_pods
    /\ UNCHANGED <<pc, parseVars, workloadVars, topVars, reportVars, nodeVars, runVars, pod_items, ns_result>>

\* lines 221-229
ReturnPods ==
    /\ pc = "pods_loop" /\ pod_idx = Len(pod_items)
    /\ ns_result' = PodsResult(pods_count, pod_totals, no_req_pods, None)
    /\ pc' = "returned"
    /\ UNCHANGED <<parseVars, workloadVars, topVars, reportVars, nodeVars, runVars, pod_items, pod_idx, pods_count, no_req_pods,
                   pod_totals>>

NextPods == OcGetPodsFails \/ JsonDecodeError \/ OcGetPods \/ ProcessPod \/ ReturnPods

SpecPods == InitPods /\ [][NextPods]_vars

----------------------------------------------------------------------------
(* Properties of get_running_pods_resources, checked under SpecPods *)

\* the sum of one field over every container of the first n pods
RECURSIVE PodsSum(_, _, _)
PodsSum(pods, n, f) ==
    IF n = 0 THEN RZero
    ELSE RAdd(PodsSum(pods, n - 1, f), SumField("ns_resource_report", pods[n], 1, f))

\* C9: for a successfully fetched namespace each of the four returned totals
\* is the sum, over every container of every returned Running pod, of the
\* parsed value of that container's field, a missing field counting 0 (the
\* same holds of the running totals after each pod).
C9_PodTotals ==
    /\ pc = "pods_loop"
          => \A f \in FieldNames : pod_totals[f] = PodsSum(pod_items, pod_idx, f)
    /\ (pc = "returned" /\ ns_result.error = None)
          => /\ ns_result.pods = Len(pod_items)
             /\ ns_result.cpu_req_m = PodsSum(pod_items, Len(pod_items), "cpu_req")
             /\ ns_result.cpu_lim_m = PodsSum(pod_items, Len(pod_items), "cpu_lim")
             /\ ns_result.mem_req_mib = PodsSum(pod_items, Len(pod_items), "mem_req")
             /\ ns_result.mem_lim_mib = PodsSum(pod_items, Len(pod_items), "mem_lim")

\* one pod with containers requesting 500m/256Mi and 0.5/1Gi was returned as
\* cpu_req_m = 1000 and mem_req_mib = 1280
C9_Witness ==
    /\ pc = "returned"
    /\ pod_items = <<(<<ContainerA, ContainerB>>)>>
    /\ ns_result.error = None
    /\ ns_result.pods = 1
    /\ ns_result.cpu_req_m = RInt(1000)
    /\ ns_result.mem_req_mib = RInt(1280)

\* the container holds the key cpu or the key memory under requests
DeclaresRequest(c) == c.requests.cpu # Absent \/ c.requests.memory # Absent

\* the pods among the first n none of whose containers declares a request
PodsWithoutRequests(pods, n) ==
    {p \in 1..n : \A k \in 1..Len(pods[p]) : ~DeclaresRequest(pods[p][k])}

\* C10: a pod is counted in no_req_pods if and only if none of its
\* containers declares a cpu request or a memory request; limits do not
\* matter, and a declared request that parses to 0 keeps the pod out of the
\* count.
C10_NoRequestPods ==
    /\ pc = "pods_loop"
          => no_req_pods = Cardinality(PodsWithoutRequests(pod_items, pod_idx))
    /\ (pc = "returned" /\ ns_result.error = None)
          => ns_result.no_req_pods
                = Cardinality(PodsWithoutRequests(pod_items, Len(pod_items)))

\* a pod requesting cpu "0" and a pod with limits only: one pod is counted
C10_Witness ==
    /\ pc = "returned"
    /\ pod_items = <<(<<ContainerZero>>), (<<ContainerLimitsOnly>>)>>
    /\ ns_result.error = None
    /\ ns_result.pods = 2
    /\ ns_result.cpu_req_m = RZero
    /\ ns_result.no_req_pods = 1

\* C11: the pods count equals the number of pod items returned for the
\* namespace: after each pod, with zero, one or many containers, it is one
\* more than before, and the returned record holds the length of the list.
C11_PodsCount ==
    /\ pc = "pods_loop" => pods_count = pod_idx
    /\ (pc = "returned" /\ ns_result.error = None) => ns_result.pods = Len(pod_items)

\* a pod without containers and a pod with two containers were returned as
\* pods = 2
C11_Witness ==
    /\ pc = "returned"
    /\ pod_items = <<(<<>>), (<<ContainerA, ContainerB>>)>>
    /\ ns_result.error = None
    /\ ns_result.pods = 2
    /\ ns_result.cpu_req_m = RInt(1000)

----------------------------------------------------------------------------
(* ns_resource_report.get_top_pods *)

\* line.split(): the maximal runs of non-whitespace characters of the line;
\* cur is the run being read, acc the runs already closed
RECURSIVE SplitFrom(_, _, _, _)
SplitFrom(line, i, cur, acc) ==
    IF i > Len(line) THEN (IF cur = <<>> THEN acc ELSE Append(acc, cur))
    ELSE IF IsSpace(line[i])
         THEN SplitFrom(line, i + 1, <<>>, IF cur = <<>> THEN acc ELSE Append(acc, cur))
    ELSE SplitFrom(line, i + 1, Append(cur, line[i]), acc)

Split(line) == SplitFrom(line, 1, <<>>, <<>>)

\* "p1 250m 512Mi"
TopLineMilli == <<"p", "1", " ", "2", "5", "0", "m", " ", "5", "1", "2", "M", "i">>
\* "p2  1  1Gi"
TopLineCores == <<"p", "2", " ", " ", "1", " ", " ", "1", "G", "i">>
\* "p3 <unknown> <unknown>": three fields, no number in them
TopLineUnknown == <<"p", "3", " ", "<", "u", "n", "k", "n", "o", "w", "n", ">", " ", "<", "u", "n", "k", "n", "o", "w", "n", ">">>
\* "p4 5m": two fields
TopLineShort == <<"p", "4", " ", "5", "m">>
\* an empty line
TopLineBlank == <<>>

TopLines == {TopLineMilli, TopLineCores, TopLineUnknown, TopLineShort, TopLineBlank}

\* the lines of the snapshots oc adm top pods prints
TopSnapshots == UNION {[1..k -> TopLines] : k \in 0..MaxLines}

\* lines 252-258: one line of the snapshot, split into parts
AddTopLine(parts, st) ==
    IF Len(parts) < 3 THEN st
    ELSE [cpu_m |-> FloatAdd(st.cpu_m, convert_cpu_to_m("ns_resource_report", parts[2]).val),
          mem_mib |-> FloatAdd(st.mem_mib,
                               convert_memory_to_mib("ns_resource_report", parts[3]).val),
          parsed |-> st.parsed + 1]

\* lines 251-258: for line in stdout.strip().splitlines()
StepTop(line, st) == AddTopLine(Split(line), st)

\* lines 260-264
TopReturn(st) == IF st.parsed = 0 THEN TopNone ELSE TopRecord(st.cpu_m, st.mem_mib)

InitTop ==
    /\ pc = "top_pods"
    /\ IdleTop
    /\ IdleReport
    /\ IdleNodes
    /\ IdleRuns
    /\ IdleParse
    /\ IdleWorkloads
    /\ IdlePods

\* lines 239-246: oc adm top pods ended with rc != 0
OcTopFails ==
    /\ pc = "top_pods"
    /\ top_result' = TopNone
    /\ pc' = "top_returned"
    /\ UNCHANGED <<parseVars, workloadVars, podVars, reportVars, nodeVars, runVars, top_lines, top_idx, top_totals, parsed>>

\* lines 239-251: the snapshot is read
OcTop ==
    /\ pc = "top_pods"
    /\ top_lines' \in TopSnapshots
    /\ pc' = "top_loop"
    /\ UNCHANGED <<parseVars, workloadVars, podVars, reportVars, nodeVars, runVars, top_idx, top_totals, parsed, top_result>>

ProcessTopLine ==
    /\ pc = "top_loop" /\ top_idx < Len(top_lines)
    /\ top_idx' = top_idx + 1
    /\ \E st \in {StepTop(top_lines[top_idx + 1],
                          [cpu_m |-> top_totals.cpu_m, mem_mib |-> top_totals.mem_mib,
                           parsed |-> parsed])} :
           /\ top_totals' = [cpu_m |-> st.cpu_m, mem_mib |-> st.mem_mib]
           /\ parsed' = st.parsed
    /\ UNCHANGED <<pc, parseVars, workloadVars, podVars, reportVars, nodeVars, runVars, top_lines, top_result>>

ReturnTop ==
    /\ pc = "top_loop" /\ top_idx = Len(top_lines)
    /\ top_result' = TopReturn([cpu_m |-> top_totals.cpu_m, mem_mib |-> top_totals.mem_mib,
                                parsed |-> parsed])
    /\ pc' = "top_returned"
    /\ UNCHANGED <<parseVars, workloadVars, podVars, reportVars, nodeVars, runVars, top_lines, top_idx, top_totals, parsed>>

NextTop == OcTopFails \/ OcTop \/ ProcessTopLine \/ ReturnTop

SpecTop == InitTop /\ [][NextTop]_vars

----------------------------------------------------------------------------
(* Properties of get_top_pods, checked under SpecTop *)

\* the line has its three fields and a number in the CPU and the memory field
ParseableLine(line) ==
    /\ Len(Split(line)) >= 3
    /\ ~NumericPartUnparseable("cpu", Split(line)[2])
    /\ ~NumericPartUnparseable("mem", Split(line)[3])

ParseableLines(lines, n) == {i \in 1..n : ParseableLine(lines[i])}

\* C19: lines of the snapshot that cannot be parsed are skipped and are not
\* counted as valid lines, and a snapshot with no valid line, also one whose
\* lines all carry unparseable CPU/memory values, is returned as unavailable
\* (None), never as a record of 0 CPU / 0 memory.
C19_UnparseableSkipped ==
    /\ pc = "top_loop" => parsed = Cardinality(ParseableLines(top_lines, top_idx))
    /\ (pc = "top_returned" /\ ParseableLines(top_lines, Len(top_lines)) = {})
          => top_result = TopNone

----------------------------------------------------------------------------
(* ns_resource_report.main and generate_report *)

\* the characters of namespace names, in code point order
CodePoints ==
    <<"-", "0", "1", "2", "3", "4", "5", "6", "7", "8", "9",
      "a", "b", "c", "d", "e", "f", "g", "h", "i", "j", "k", "l", "m",
      "n", "o", "p", "q", "r", "s", "t", "u", "v", "w", "x", "y", "z">>

Ord(c) == CHOOSE i \in 1..Len(CodePoints) : CodePoints[i] = c

\* a < b on str
RECURSIVE StrLess(_, _)
StrLess(a, b) ==
    IF b = <<>> THEN FALSE
    ELSE IF a = <<>> THEN TRUE
    ELSE IF Head(a) = Head(b) THEN StrLess(Tail(a), Tail(b))
    ELSE Ord(Head(a)) < Ord(Head(b))

NamespaceNames == {<<"a", "p", "p">>, <<"d", "b">>, <<"k", "u", "b", "e", "-", "s", "y", "s", "t", "e", "m">>}

\* the lists get_namespaces returns: names of the cluster, no name twice
NamespaceLists ==
    {l \in UNION {[1..k -> NamespaceNames] : k \in 1..MaxNamespaces} :
        \A i, j \in 1..Len(l) : i # j => l[i] # l[j]}

\* what oc get pods gives for one namespace: rc and stderr, whether stdout
\* is JSON, and the pods in it
PodFetch(rc, stderr, json, pods) == [rc |-> rc, stderr |-> stderr, json |-> json, pods |-> pods]

PodFetches ==
    {PodFetch(1, t, FALSE, <<>>) : t \in StderrTexts}
        \cup {PodFetch(0, <<>>, FALSE, <<>>)}
        \cup {PodFetch(0, <<>>, TRUE, p) :
                 p \in {<<(<<ContainerA, ContainerB>>)>>, <<(<<ContainerC>>), (<<ContainerZero>>)>>}}

\* what oc adm top pods gives for one namespace
TopFetches ==
    {[rc |-> 1, lines |-> <<>>], [rc |-> 0, lines |-> <<TopLineMilli>>],
     [rc |-> 0, lines |-> <<TopLineUnknown>>]}

\* lines 186-219 run to the end of the list
RECURSIVE RunPodsLoop(_, _, _)
RunPodsLoop(pods, i, st) ==
    IF i > Len(pods) THEN st ELSE RunPodsLoop(pods, i + 1, StepPod(pods[i], st))

PodsReturn(st) == PodsResult(st.pods_count, st.totals, st.no_req_pods, None)

\* get_running_pods_resources as one call
GetRunningPodsResources(fetch) ==
    IF fetch.rc # 0 THEN PodsFailed(fetch.stderr)
    ELSE IF ~fetch.json THEN PodsUndecodable
    ELSE PodsReturn(RunPodsLoop(fetch.pods, 1,
                                [pods_count |-> 0, totals |-> ZeroTotals, no_req_pods |-> 0]))

\* lines 252-259 run to the end of the snapshot
RECURSIVE RunTopLoop(_, _, _)
RunTopLoop(lines, i, st) ==
    IF i > Len(lines) THEN st ELSE RunTopLoop(lines, i + 1, StepTop(lines[i], st))

\* get_top_pods on a failed query giving zero usage instead of None
GetTopPods_zeroOnFailure(fetch) ==
    IF fetch.rc # 0 THEN TopRecord(RZero, RZero)
    ELSE TopReturn(RunTopLoop(fetch.lines, 1,
                              [cpu_m |-> RZero, mem_mib |-> RZero, parsed |-> 0]))

\* get_top_pods as one call
GetTopPods(fetch) ==
    IF fetch.rc # 0 THEN TopNone
    ELSE TopReturn(RunTopLoop(fetch.lines, 1,
                              [cpu_m |-> RZero, mem_mib |-> RZero, parsed |-> 0]))

\* with --no-top main does not call get_top_pods: no reply
NoTopQuery == [rc |-> 0, lines |-> <<>>]

\* data with data['top'] set; without 'top' d.get('top') is None as well
WithTop(data, top) ==
    [pods |-> data.pods, cpu_req_m |-> data.cpu_req_m, cpu_lim_m |-> data.cpu_lim_m,
     mem_req_mib |-> data.mem_req_mib, mem_lim_mib |-> data.mem_lim_mib,
     no_req_pods |-> data.no_req_pods, error |-> data.error, top |-> top]

\* `if d.get('error')`: the record holds a non-empty error text
HasError(d) == ~Falsy(d.error)

\* SORT_KEYS, lines 316-323, for the keys other than 'name'
SortKey(d, key) ==
    CASE key = "cpu-req" -> d.cpu_req_m
      [] key = "cpu-lim" -> d.cpu_lim_m
      [] key = "mem-req" -> d.mem_req_mib
      [] key = "mem-lim" -> d.mem_lim_mib
      [] key = "pods" -> RInt(d.pods)

SortOptions == {"cpu-req", "cpu-lim", "mem-req", "mem-lim", "pods", "name"}

\* x < y on the sort keys of two items: names as str, the other keys as
\* float (every comparison with a nan is false)
KeyLess(x, y, key) ==
    IF key = "name" THEN StrLess(x.ns, y.ns)
    ELSE FloatLess(SortKey(x.data, key), SortKey(y.data, key))

\* list.sort on a list of fewer than 64 items: the run at the front is
\* taken as it is, or reversed when it is strictly descending, and every
\* further item is put into it by binary insertion
InRun(s, k, descending, key) == KeyLess(s[k], s[k - 1], key) = descending

CountRun(s, descending, key) ==
    CHOOSE n \in 2..Len(s) :
        /\ \A k \in 3..n : InRun(s, k, descending, key)
        /\ (n = Len(s) \/ ~InRun(s, n + 1, descending, key))

ReversedRun(s, n) == [i \in 1..Len(s) |-> IF i <= n THEN s[n + 1 - i] ELSE s[i]]

\* the place of pivot among s[l+1..r], sorted: behind every item that it is
\* not less than
RECURSIVE BinarySearch(_, _, _, _, _)
BinarySearch(s, pivot, l, r, key) ==
    IF l >= r THEN l
    ELSE IF KeyLess(pivot, s[l + ((r - l) \div 2) + 1], key)
         THEN BinarySearch(s, pivot, l, l + ((r - l) \div 2), key)
    ELSE BinarySearch(s, pivot, l + ((r - l) \div 2) + 1, r, key)

\* s with s[start] moved to the place l + 1
Inserted(s, start, l) ==
    [i \in 1..Len(s) |->
        IF i <= l \/ i > start THEN s[i] ELSE IF i = l + 1 THEN s[start] ELSE s[i - 1]]

RECURSIVE BinarySort(_, _, _)
BinarySort(s, start, key) ==
    IF start > Len(s) THEN s
    ELSE BinarySort(Inserted(s, start, BinarySearch(s, s[start], 0, start - 1, key)),
                    start + 1, key)

SortRun(s, n, descending, key) ==
    BinarySort(IF descending THEN ReversedRun(s, n) ELSE s, n + 1, key)

ListSort(s, key) ==
    IF Len(s) < 2 THEN s
    ELSE SortRun(s, CountRun(s, KeyLess(s[2], s[1], key), key),
                 KeyLess(s[2], s[1], key), key)

\* lines 340-348: sorted_items
SortedItems(its, key) ==
    IF key = "name" THEN ListSort(its, key) ELSE Reverse(ListSort(Reverse(its), key))

IsValid(item) == ~HasError(item.data)

HasTop(item) == item.data.top.available

\* sum(d[f] for d in ...) on int and on float fields
RECURSIVE SumInt(_, _, _)
SumInt(its, i, f) == IF i > Len(its) THEN 0 ELSE its[i].data[f] + SumInt(its, i + 1, f)

\* the sum starts at 0 and takes the items from the first on
RECURSIVE SumFloat(_, _)
SumFloat(its, f) ==
    IF its = <<>> THEN RZero
    ELSE FloatAdd(SumFloat(DropLast(its, 1), f), its[Len(its)].data[f])

RECURSIVE SumTop(_, _)
SumTop(its, f) ==
    IF its = <<>> THEN RZero
    ELSE FloatAdd(SumTop(DropLast(its, 1), f), its[Len(its)].data.top[f])

\* lines 350-362 with the usage summed over valid_data as well
GrandTotals_validTop(its, top_available) ==
    [pods |-> SumInt(SelectSeq(its, IsValid), 1, "pods"),
     cpu_req |-> SumFloat(SelectSeq(its, IsValid), "cpu_req_m"),
     cpu_lim |-> SumFloat(SelectSeq(its, IsValid), "cpu_lim_m"),
     mem_req |-> SumFloat(SelectSeq(its, IsValid), "mem_req_mib"),
     mem_lim |-> SumFloat(SelectSeq(its, IsValid), "mem_lim_mib"),
     no_req |-> SumInt(SelectSeq(its, IsValid), 1, "no_req_pods"),
     top_cpu |-> IF top_available
                 THEN SumTop(SelectSeq(SelectSeq(its, IsValid), HasTop), "cpu_m")
                 ELSE RZero,
     top_mem |-> IF top_available
                 THEN SumTop(SelectSeq(SelectSeq(its, IsValid), HasTop), "mem_mib")
                 ELSE RZero]

\* lines 350-362: valid_data, grand_*, grand_top_*
GrandTotals(its, top_available) ==
    [pods |-> SumInt(SelectSeq(its, IsValid), 1, "pods"),
     cpu_req |-> SumFloat(SelectSeq(its, IsValid), "cpu_req_m"),
     cpu_lim |-> SumFloat(SelectSeq(its, IsValid), "cpu_lim_m"),
     mem_req |-> SumFloat(SelectSeq(its, IsValid), "mem_req_mib"),
     mem_lim |-> SumFloat(SelectSeq(its, IsValid), "mem_lim_mib"),
     no_req |-> SumInt(SelectSeq(its, IsValid), 1, "no_req_pods"),
     top_cpu |-> IF top_available THEN SumTop(SelectSeq(its, HasTop), "cpu_m") ELSE RZero,
     top_mem |-> IF top_available THEN SumTop(SelectSeq(its, HasTop), "mem_mib") ELSE RZero]

\* line 358: top_available
TopAvailable(its, top) == top /\ \E i \in 1..Len(its) : HasTop(its[i])

\* a cell of the table: a rounded number with its unit, or a fixed text
Cell(unit, val) == [unit |-> unit, val |-> val]

Dash == Cell("-", RZero)

NotAvailable == Cell("N/A", RZero)

NoColumn == Cell("", RZero)

\* fmt_cpu, lines 271-281
fmt_cpu(millicores) ==
    IF IsZero(millicores) THEN Dash
    ELSE IF FloatGe(millicores, RInt(1000))
         THEN Cell("c", FloatFixed(FloatDiv(millicores, RInt(1000)), 2))
    ELSE Cell("m", FloatFixed(millicores, 0))

\* fmt_mem, lines 284-294
fmt_mem(mib) ==
    IF IsZero(mib) THEN Dash
    ELSE IF FloatGe(mib, RInt(1024)) THEN Cell("GiB", FloatFixed(FloatDiv(mib, RInt(1024)), 2))
    ELSE Cell("MiB", FloatFixed(mib, 0))

\* d['error'][:30]
First30(t) == SubSeq(t, 1, IF Len(t) < 30 THEN Len(t) ELSE 30)

\* lines 387-393: the row of a namespace with an error
ErrorRow(ns, d, top) ==
    [ns |-> ns, err |-> <<"E", "R", "R", ":", " ">> \o First30(d.error), pods |-> 0, warn |-> FALSE,
     cpu_req |-> Dash, cpu_lim |-> Dash, cpu_actual |-> IF top THEN Dash ELSE NoColumn,
     mem_req |-> Dash, mem_lim |-> Dash, mem_actual |-> IF top THEN Dash ELSE NoColumn]

\* lines 395-417: the row of a measured namespace
DataRow(ns, d, top) ==
    [ns |-> ns, err |-> None, pods |-> d.pods, warn |-> d.no_req_pods > 0,
     cpu_req |-> fmt_cpu(d.cpu_req_m), cpu_lim |-> fmt_cpu(d.cpu_lim_m),
     cpu_actual |-> IF ~top THEN NoColumn
                    ELSE IF d.top.available THEN fmt_cpu(d.top.cpu_m) ELSE NotAvailable,
     mem_req |-> fmt_mem(d.mem_req_mib), mem_lim |-> fmt_mem(d.mem_lim_mib),
     mem_actual |-> IF ~top THEN NoColumn
                    ELSE IF d.top.available THEN fmt_mem(d.top.mem_mib) ELSE NotAvailable]

\* lines 385-417: one row per item of sorted_items
Rows(sorted, top) ==
    [k \in 1..Len(sorted) |->
        IF HasError(sorted[k].data) THEN ErrorRow(sorted[k].ns, sorted[k].data, top)
        ELSE DataRow(sorted[k].ns, sorted[k].data, top)]

\* lines 422-436: sum_row
SumRow(count, grand, top, top_available) ==
    [count |-> count, pods |-> grand.pods,
     cpu_req |-> fmt_cpu(grand.cpu_req), cpu_lim |-> fmt_cpu(grand.cpu_lim),
     cpu_actual |-> IF ~top THEN NoColumn
                    ELSE IF top_available THEN fmt_cpu(grand.top_cpu) ELSE NotAvailable,
     mem_req |-> fmt_mem(grand.mem_req), mem_lim |-> fmt_mem(grand.mem_lim),
     mem_actual |-> IF ~top THEN NoColumn
                    ELSE IF top_available THEN fmt_mem(grand.top_mem) ELSE NotAvailable]

\* lines 488-494: errors, in the order of ns_data
Warnings(its) ==
    [k \in 1..Len(SelectSeq(its, LAMBDA it : HasError(it.data))) |->
        [ns |-> SelectSeq(its, LAMBDA it : HasError(it.data))[k].ns,
         error |-> SelectSeq(its, LAMBDA it : HasError(it.data))[k].data.error]]

\* the report from the grand totals on
PrintedReport(its, top, key, top_available, grand) ==
    [printed |-> TRUE,
     rows |-> Rows(SortedItems(its, key), top),
     grand |-> grand,
     top_available |-> top_available,
     sum_row |-> SumRow(Len(its), grand, top, top_available),
     warnings |-> Warnings(its)]

\* lines 335-338: the BLAD line of generate_report
BladNoTabulate == "BLAD: Wymagana biblioteka 'tabulate'"

\* lines 333-338: `from tabulate import tabulate` raised ImportError: the
\* BLAD line and sys.exit(1), nothing of the report printed
ImportErrorExit == [printed |-> FALSE, blad |-> <<BladNoTabulate>>]

\* generate_report(ns_data, show_top, sort_by), lines 330-494; tabulate says
\* whether the library can be imported
generate_report(its, top, key, tabulate) ==
    IF ~tabulate THEN ImportErrorExit
    ELSE PrintedReport(its, top, key, TopAvailable(its, top),
                       GrandTotals(its, TopAvailable(its, top)))

\* lines 325-327
SYSTEM_PREFIXES ==
    << <<"o", "p", "e", "n", "s", "h", "i", "f", "t", "-">>,
       <<"k", "u", "b", "e", "-">>,
       <<"d", "e", "f", "a", "u", "l", "t">>,
       <<"k", "u", "b", "e", "-", "p", "u", "b", "l", "i", "c">>,
       <<"k", "u", "b", "e", "-", "n", "o", "d", "e", "-", "l", "e", "a", "s", "e">> >>

\* str.startswith(prefix)
StartsWith(s, prefix) == Len(s) >= Len(prefix) /\ SubSeq(s, 1, Len(prefix)) = prefix

\* str.startswith(tuple of prefixes)
StartsWithAny(s, prefixes) == \E i \in 1..Len(prefixes) : StartsWith(s, prefixes[i])

\* line 560: [ns for ns in namespaces if not ns.startswith(SYSTEM_PREFIXES)]
SkipSystem(nss) == SelectSeq(nss, LAMBDA ns : ~StartsWithAny(ns, SYSTEM_PREFIXES))

\* line 565: [ns for ns in namespaces if ns not in exclude_set]
Exclude(nss, exclude) == SelectSeq(nss, LAMBDA ns : \A i \in 1..Len(exclude) : exclude[i] # ns)

\* lines 558-566: the namespaces left of what get_namespaces returned
FilterNamespaces(nss, a) ==
    IF a.exclude # <<>>
    THEN Exclude(IF a.skip_system /\ Falsy(a.namespace) THEN SkipSystem(nss) ELSE nss, a.exclude)
    ELSE IF a.skip_system /\ Falsy(a.namespace) THEN SkipSystem(nss) ELSE nss

\* the BLAD lines of run_oc, check_login and get_namespaces
BladNoOc == "BLAD: Nie znaleziono polecenia 'oc'"
BladNotLoggedIn == "BLAD: Nie jestes zalogowany"
BladNoSuchNamespace == "BLAD: Namespace nie istnieje lub brak uprawnien"
BladCannotList == "BLAD: Nie mozna pobrac listy namespace'ow"
BladNoNamespaces == "BLAD: Brak namespace'ow lub brak uprawnien do ich listowania"

\* lines 122-144: rc is the exit code of the oc query, names the names it
\* printed; blad is the line printed before sys.exit(1), or None
get_namespaces(target_ns, rc, names) ==
    IF ~Falsy(target_ns)
    THEN IF rc # 0 THEN [blad |-> <<BladNoSuchNamespace>>, namespaces |-> <<>>]
         ELSE [blad |-> <<>>, namespaces |-> <<target_ns>>]
    ELSE IF rc # 0 THEN [blad |-> <<BladCannotList>>, namespaces |-> <<>>]
    ELSE IF names = <<>> THEN [blad |-> <<BladNoNamespaces>>, namespaces |-> <<>>]
    ELSE [blad |-> <<>>, namespaces |-> names]

\* a cluster with system namespaces and namespaces named like them
ClusterNames ==
    {<<"a", "p", "p">>,
     <<"d", "e", "f", "a", "u", "l", "t">>,
     <<"d", "e", "f", "a", "u", "l", "t", "-", "a", "p", "p", "s">>,
     <<"k", "u", "b", "e", "-", "s", "y", "s", "t", "e", "m">>,
     <<"o", "p", "e", "n", "s", "h", "i", "f", "t", "-", "e", "t", "c", "d">>}

\* what `oc get namespaces` prints there: no name twice, or nothing at all
ClusterLists ==
    {l \in UNION {[1..k -> ClusterNames] : k \in 0..MaxNamespaces} :
        \A i, j \in 1..Len(l) : i # j => l[i] # l[j]}

\* --namespace app, --skip-system and --exclude app, each given or not
OptionSets ==
    {MainArgs(n, s, e) : n \in {None, <<"a", "p", "p">>}, s \in BOOLEAN,
                         e \in {<<>>, <<(<<"a", "p", "p">>)>>}}

\* ns_data[ns] = data on a dict that keeps insertion order
StoreRecord_dropsOnError(d, ns, data) ==
    IF ~Falsy(data.error) THEN <<[ns |-> ns, data |-> data]>>
    ELSE Append(d, [ns |-> ns, data |-> data])

StoreRecord(d, ns, data) ==
    IF \E i \in 1..Len(d) : d[i].ns = ns
    THEN [i \in 1..Len(d) |-> IF d[i].ns = ns THEN [ns |-> ns, data |-> data] ELSE d[i]]
    ELSE Append(d, [ns |-> ns, data |-> data])

\* an oc query of the namespace loop
OcCall(query, ns) == [query |-> query, ns |-> ns]

otherVars == <<parseVars, workloadVars, podVars, topVars, nodeVars, runVars>>
optionVars == <<show_top, sort_by, args, cluster>>
loopVars == <<ns_idx, ns_data, oc_results, fetched, oc_calls>>

\* the options of the run and the cluster it looks at: every sort key and
\* --no-top on a cluster of plain namespaces, and the options that select
\* namespaces on a cluster with system namespaces
InitReport ==
    /\ pc = "check_login"
    /\ \/ /\ args = NoArgs
          /\ cluster \in NamespaceLists
          /\ show_top \in BOOLEAN
          /\ sort_by \in SortOptions
       \/ /\ args \in OptionSets
          /\ cluster \in ClusterLists
          /\ show_top = FALSE
          /\ sort_by = "cpu-req"
    /\ namespaces = <<>> /\ ns_idx = 0 /\ ns_data = <<>> /\ oc_results = <<>>
    /\ ns_report = NoNsReport /\ fetched = NotFetched /\ oc_calls = <<>> /\ blad = <<>>
    /\ IdleNodes
    /\ IdleRuns
    /\ IdleParse
    /\ IdleWorkloads
    /\ IdlePods
    /\ IdleTop

\* run_oc printing the BLAD line and returning to its caller
OcMissing_returns ==
    /\ \/ pc \in {"check_login", "get_namespaces"}
       \/ pc = "main_loop" /\ ns_idx < Len(namespaces)
       \/ pc = "main_fetched" /\ show_top
    /\ blad = <<>>
    /\ blad' = Append(blad, BladNoOc)
    /\ UNCHANGED <<pc, otherVars, optionVars, loopVars, namespaces, ns_report>>

\* run_oc lines 103-105: subprocess.run finds no oc executable, in whichever
\* query is under way: the BLAD line and sys.exit(1)
OcMissing ==
    /\ \/ pc \in {"check_login", "get_namespaces"}
       \/ pc = "main_loop" /\ ns_idx < Len(namespaces)
       \/ pc = "main_fetched" /\ show_top
    /\ blad' = Append(blad, BladNoOc)
    /\ pc' = "main_exit_1"
    /\ UNCHANGED <<otherVars, optionVars, loopVars, namespaces, ns_report>>

\* lines 108-119: oc whoami exits with rc
CheckLogin ==
    /\ pc = "check_login"
    /\ \E rc \in {0, 1} :
          /\ blad' = IF rc # 0 THEN Append(blad, BladNotLoggedIn) ELSE blad
          /\ pc' = IF rc # 0 THEN "main_exit_1" ELSE "get_namespaces"
    /\ UNCHANGED <<otherVars, optionVars, loopVars, namespaces, ns_report>>

\* line 555: namespaces = get_namespaces(args.namespace)
GetNamespaces ==
    /\ pc = "get_namespaces"
    /\ \E rc \in {0, 1} :
        \E got \in {get_namespaces(args.namespace, rc, cluster)} :
          /\ namespaces' = got.namespaces
          /\ blad' = blad \o got.blad
          /\ pc' = IF got.blad # <<>> THEN "main_exit_1" ELSE "filter"
    /\ UNCHANGED <<otherVars, optionVars, loopVars, ns_report>>

\* lines 558-570: --skip-system, --exclude, and sys.exit(0) when nothing is left
SelectNamespaces ==
    /\ pc = "filter"
    /\ namespaces' = FilterNamespaces(namespaces, args)
    /\ pc' = IF namespaces' = <<>> THEN "main_exit_0" ELSE "main_loop"
    /\ UNCHANGED <<otherVars, optionVars, loopVars, ns_report, blad>>

\* line 581: data = get_running_pods_resources(ns)
FetchPods ==
    /\ pc = "main_loop" /\ ns_idx < Len(namespaces)
    /\ \E pf \in PodFetches :
          fetched' = [pods |-> pf, data |-> GetRunningPodsResources(pf)]
    /\ oc_calls' = Append(oc_calls, OcCall("pods", namespaces[ns_idx + 1]))
    /\ pc' = "main_fetched"
    /\ UNCHANGED <<otherVars, optionVars, namespaces, ns_idx, ns_data, oc_results, ns_report, blad>>

\* lines 583-586: data['top'] = get_top_pods(ns) unless --no-top, then
\* ns_data[ns] = data
CollectNamespace ==
    /\ pc = "main_fetched"
    /\ \E tf \in (IF show_top THEN TopFetches ELSE {NoTopQuery}) :
          /\ ns_data' = StoreRecord(ns_data, namespaces[ns_idx + 1],
                                    WithTop(fetched.data,
                                            IF show_top THEN GetTopPods(tf) ELSE TopNone))
          /\ oc_results' = Append(oc_results, [pods |-> fetched.pods, top |-> tf])
    /\ oc_calls' = IF show_top THEN Append(oc_calls, OcCall("top", namespaces[ns_idx + 1]))
                   ELSE oc_calls
    /\ fetched' = NotFetched
    /\ ns_idx' = ns_idx + 1
    /\ pc' = "main_loop"
    /\ UNCHANGED <<otherVars, optionVars, namespaces, ns_report, blad>>

\* the call of line 600 indented into the loop body
GenerateReport_insideLoop ==
    /\ pc = "main_loop"
    /\ \E tabulate \in BOOLEAN :
         \E rep \in {generate_report(ns_data, show_top, sort_by, tabulate)} :
            /\ ns_report' = IF rep.printed THEN rep ELSE ns_report
            /\ blad' = IF rep.printed THEN blad ELSE blad \o rep.blad
            /\ pc' = IF rep.printed THEN "reported" ELSE "main_exit_1"
    /\ UNCHANGED <<otherVars, optionVars, loopVars, namespaces>>

\* line 600: generate_report(ns_data, show_top=not args.no_top, sort_by=args.sort),
\* on a machine with or without the tabulate library
GenerateReport ==
    /\ pc = "main_loop" /\ ns_idx = Len(namespaces)
    /\ \E tabulate \in BOOLEAN :
         \E rep \in {generate_report(ns_data, show_top, sort_by, tabulate)} :
            /\ ns_report' = IF rep.printed THEN rep ELSE ns_report
            /\ blad' = IF rep.printed THEN blad ELSE blad \o rep.blad
            /\ pc' = IF rep.printed THEN "reported" ELSE "main_exit_1"
    /\ UNCHANGED <<otherVars, optionVars, loopVars, namespaces>>

NextReport ==
    \/ OcMissing
    \/ CheckLogin
    \/ GetNamespaces
    \/ SelectNamespaces
    \/ FetchPods
    \/ CollectNamespace
    \/ GenerateReport

SpecReport == InitReport /\ [][NextReport]_vars

\* the steps of main before line 600
BeforeReport ==
    \/ OcMissing
    \/ CheckLogin
    \/ GetNamespaces
    \/ SelectNamespaces
    \/ FetchPods
    \/ CollectNamespace

\* the step of line 600 seen on pc: GenerateReport is the one action that
\* leaves the end of the loop, for "reported" or for the exit of line 338
ReportStep ==
    /\ pc = "main_loop" /\ ns_idx = Len(namespaces)
    /\ pc' \in {"reported", "main_exit_1"}

\* main is sequential code and every oc query returns or raises: a run that
\* can take a step takes one
FairSpecReport == SpecReport /\ WF_vars(BeforeReport) /\ WF_pc(ReportStep)

-----------------------------------------------------------------------------
(* Properties of main and generate_report *)

\* the query of the pods failed: non-zero exit, or stdout that is not JSON
PodsFetchFailed(pf) == pf.rc # 0 \/ ~pf.json

\* positions of the table rows and of the warnings entries of namespace ns
RowsOfNamespace(ns) == {r \in 1..Len(ns_report.rows) : ns_report.rows[r].ns = ns}
WarningsOfNamespace(ns) == {w \in 1..Len(ns_report.warnings) : ns_report.warnings[w].ns = ns}

NumericFieldsZero(d) ==
    /\ d.pods = 0 /\ d.no_req_pods = 0
    /\ d.cpu_req_m = RZero /\ d.cpu_lim_m = RZero
    /\ d.mem_req_mib = RZero /\ d.mem_lim_mib = RZero

\* C12: a namespace whose pod fetch failed has exactly one record, with error
\* set and all six numeric fields 0, and is both a row of the table and an
\* entry of the warnings section
C12_FailedFetchListed ==
    pc = "reported" =>
        \A i \in 1..Len(oc_results) :
            PodsFetchFailed(oc_results[i].pods) =>
                /\ Cardinality({j \in 1..Len(ns_data) : ns_data[j].ns = namespaces[i]}) = 1
                /\ ns_data[i].ns = namespaces[i]
                /\ ns_data[i].data.error # None
                /\ NumericFieldsZero(ns_data[i].data)
                /\ RowsOfNamespace(namespaces[i]) # {}
                /\ WarningsOfNamespace(namespaces[i]) # {}

\* C13: every field of the grand total, the two usage sums included, is the
\* sum of the field over the namespaces whose record has no error
C13_GrandOverValidOnly ==
    pc = "reported" =>
        ns_report.grand = GrandTotals_validTop(ns_data, ns_report.top_available)

\* the usage query of namespace i was made and failed
TopQueryFailed(i) == show_top /\ oc_results[i].top.rc # 0

\* the parts of C18 other than the cells of the row: None for that namespace
\* only, declared totals as get_running_pods_resources returned them, every
\* namespace collected and the report printed with a row for each
TopFailureContained ==
    /\ Len(ns_data) = Len(namespaces)
    /\ ns_report.printed
    /\ \A i \in 1..Len(oc_results) :
          /\ RowsOfNamespace(namespaces[i]) # {}
          /\ TopQueryFailed(i) =>
                /\ ns_data[i].data.top = TopNone
                /\ ns_data[i].data = WithTop(GetRunningPodsResources(oc_results[i].pods), TopNone)
          /\ (show_top /\ oc_results[i].top.rc = 0
                /\ ParseableLines(oc_results[i].top.lines, Len(oc_results[i].top.lines)) # {})
                => ns_data[i].data.top # TopNone

\* C18 as stated: after a failed usage query the namespace's row shows N/A in
\* both usage columns, whatever the pod fetch gave
C18_RowShowsNotAvailable ==
    pc = "reported" =>
        /\ TopFailureContained
        /\ \A i \in 1..Len(oc_results) :
              TopQueryFailed(i) =>
                  \A r \in RowsOfNamespace(namespaces[i]) :
                      /\ ns_report.rows[r].cpu_actual = NotAvailable
                      /\ ns_report.rows[r].mem_actual = NotAvailable

\* C18: a failed usage query gives None for that namespace only, leaves its
\* declared totals as they were, the loop goes on and the report is printed;
\* the namespace's row shows N/A in both usage columns, unless it is the
\* error row of the namespace, which shows "-" in every column
C18_TopFailureDegrades ==
    pc = "reported" =>
        /\ TopFailureContained
        /\ \A i \in 1..Len(oc_results) :
              TopQueryFailed(i) =>
                  \A r \in RowsOfNamespace(namespaces[i]) :
                      IF ns_report.rows[r].err = None
                      THEN /\ ns_report.rows[r].cpu_actual = NotAvailable
                           /\ ns_report.rows[r].mem_actual = NotAvailable
                      ELSE /\ ns_report.rows[r].cpu_actual = Dash
                           /\ ns_report.rows[r].mem_actual = Dash

\* the usage query fails for the first of two namespaces, whose pods declare
\* 1000m, and succeeds for the second
C18_Witness ==
    /\ pc = "reported" /\ show_top /\ sort_by = "name" /\ Len(namespaces) = 2
    /\ oc_results[1].top.rc # 0
    /\ oc_results[1].pods = PodFetch(0, <<>>, TRUE, <<(<<ContainerA, ContainerB>>)>>)
    /\ oc_results[2].top = [rc |-> 0, lines |-> <<TopLineMilli>>]
    /\ ns_data[1].data.cpu_req_m = RInt(1000)
    /\ ns_data[1].data.top = TopNone
    /\ ns_data[2].data.top = TopRecord(RInt(250), RInt(512))
    /\ \E r \in RowsOfNamespace(namespaces[1]) :
          /\ ns_report.rows[r].cpu_actual = NotAvailable
          /\ ns_report.rows[r].cpu_req = fmt_cpu(RInt(1000))

\* C20: no row of an errored namespace stands before a row of a measured
\* namespace in the table, for every sort option
C20_NoErrorRowAmongMeasured ==
    pc = "reported" =>
        \A i, j \in 1..Len(ns_report.rows) :
            (i < j /\ ns_report.rows[i].err # None) => ns_report.rows[j].err # None

\* the filters of lines 558-566 are behind and no query failed
NamespacesSelected ==
    /\ pc \in {"main_loop", "main_fetched", "reported", "main_exit_0"}
    /\ blad = <<>>

\* the names the help of --skip-system lists: openshift-*, kube-*, default,
\* kube-public, kube-node-lease
DocumentedSystem(ns) ==
    \/ StartsWith(ns, <<"o", "p", "e", "n", "s", "h", "i", "f", "t", "-">>)
    \/ StartsWith(ns, <<"k", "u", "b", "e", "-">>)
    \/ ns = <<"d", "e", "f", "a", "u", "l", "t">>
    \/ ns = <<"k", "u", "b", "e", "-", "p", "u", "b", "l", "i", "c">>
    \/ ns = <<"k", "u", "b", "e", "-", "n", "o", "d", "e", "-", "l", "e", "a", "s", "e">>

\* C27: with --skip-system and no --namespace the analysed namespaces are the
\* listed ones that the help does not name (and --exclude does not name), in
\* the listed order: default-apps stays
C27_SkipSystemAsDocumented ==
    (NamespacesSelected /\ args.skip_system /\ Falsy(args.namespace)) =>
        namespaces = Exclude(SelectSeq(cluster, LAMBDA ns : ~DocumentedSystem(ns)), args.exclude)

\* the same on clusters without a namespace that only begins with `default`
SkipSystemWithoutDefaultPrefix ==
    (NamespacesSelected /\ args.skip_system /\ Falsy(args.namespace)
        /\ \A i \in 1..Len(cluster) :
              StartsWith(cluster[i], <<"d", "e", "f", "a", "u", "l", "t">>)
                  => cluster[i] = <<"d", "e", "f", "a", "u", "l", "t">>) =>
        namespaces = Exclude(SelectSeq(cluster, LAMBDA ns : ~DocumentedSystem(ns)), args.exclude)

\* the orders in which the records of ns_data can have been collected
RECURSIVE Orderings(_)
Orderings(recs) ==
    IF recs = {} THEN {<<>>}
    ELSE UNION {{<<r>> \o o : o \in Orderings(recs \ {r})} : r \in recs}

\* C24: the rows of the report stand in the order the table has for every
\* other order of collecting the same records, ties in the sort key included
C24_RowOrderFromKeyAlone ==
    pc = "reported" =>
        \A o \in Orderings({ns_data[i] : i \in 1..Len(ns_data)}) :
            Rows(SortedItems(o, sort_by), show_top) = ns_report.rows

\* the same, where the records differ in the sort key or the sort is by name
DistinctKeys ==
    sort_by = "name" \/
        \A i, j \in 1..Len(ns_data) :
            i # j => SortKey(ns_data[i].data, sort_by) # SortKey(ns_data[j].data, sort_by)

RowOrderFromDistinctKeys ==
    (pc = "reported" /\ DistinctKeys) =>
        \A o \in Orderings({ns_data[i] : i \in 1..Len(ns_data)}) :
            Rows(SortedItems(o, sort_by), show_top) = ns_report.rows

\* the record of a namespace as a function of what oc replied for that
\* namespace and of nothing else
RecordOf(ns, replies, top) ==
    [ns |-> ns,
     data |-> WithTop(GetRunningPodsResources(replies.pods),
                      IF top THEN GetTopPods(replies.top) ELSE TopNone)]

\* C23: whatever the fetches of the other namespaces gave, failures included,
\* the record stored for a namespace is the one its own replies give, and
\* when the report is made every namespace of the list has its record
C23_OtherFetchesLeaveRecord ==
    pc \in {"main_loop", "main_fetched", "reported"} =>
        /\ Len(ns_data) = ns_idx /\ Len(oc_results) = ns_idx
        /\ \A i \in 1..ns_idx :
              ns_data[i] = RecordOf(namespaces[i], oc_results[i], show_top)
        /\ pc = "reported" => ns_idx = Len(namespaces)

\* of two namespaces the fetch of the second one fails after the first one
\* was measured, and the first one keeps its 1000 m and 1280 Mi
C23_Witness ==
    /\ pc = "reported" /\ Len(namespaces) = 2
    /\ PodsFetchFailed(oc_results[2].pods)
    /\ ~Falsy(ns_data[2].data.error)
    /\ oc_results[1].pods = PodFetch(0, <<>>, TRUE, <<(<<ContainerA, ContainerB>>)>>)
    /\ ns_data[1].ns = namespaces[1]
    /\ ns_data[1].data.cpu_req_m = RInt(1000)
    /\ ns_data[1].data.mem_req_mib = RInt(1280)
    /\ Falsy(ns_data[1].data.error)

\* a BLAD line of run_oc, check_login or get_namespaces has been printed
FatalFailure ==
    \E i \in 1..Len(blad) :
        blad[i] \in {BladNoOc, BladNotLoggedIn, BladNoSuchNamespace, BladCannotList,
                     BladNoNamespaces}

\* generate_report has been called: it printed the report or its own BLAD line
ReportInvoked == ns_report.printed \/ \E i \in 1..Len(blad) : blad[i] = BladNoTabulate

\* C21: once a BLAD line of run_oc, check_login or get_namespaces is printed
\* the run has ended with exit status 1 and stays ended: generate_report has
\* not been called and is not called, wherever in the start-up or in the
\* namespace loop the failure came
C21_FatalFailureEndsRun ==
    [][/\ FatalFailure' => (pc' = "main_exit_1" /\ ns_report' = NoNsReport /\ ~ReportInvoked')
       /\ pc = "main_exit_1" => (pc' = "main_exit_1" /\ ns_report' = ns_report /\ blad' = blad)]_vars

\* oc disappears between the pods query and the usage query of the second
\* namespace, after the first namespace was collected
C21_Witness ==
    /\ pc = "main_exit_1"
    /\ blad = <<BladNoOc>>
    /\ Len(namespaces) = 2 /\ ns_idx = 1 /\ Len(ns_data) = 1
    /\ show_top /\ fetched # NotFetched
    /\ ns_report = NoNsReport

\* the oc queries main makes for the namespaces nss, in order: the pods of a
\* namespace, its usage unless --no-top, then the next namespace
RECURSIVE QueriesFor(_, _)
QueriesFor(nss, top) ==
    IF nss = <<>> THEN <<>>
    ELSE (IF top THEN <<OcCall("pods", Head(nss)), OcCall("top", Head(nss))>>
          ELSE <<OcCall("pods", Head(nss))>>) \o QueriesFor(Tail(nss), top)

IsPrefix(s, t) == Len(s) <= Len(t) /\ SubSeq(t, 1, Len(s)) = s

\* the namespaces whose records are stored, in the order stored
RecordedNamespaces == [i \in 1..Len(ns_data) |-> ns_data[i].ns]

\* the run is over: report printed, nothing to analyse, or fatal failure
RunEnded == pc \in {"reported", "main_exit_0", "main_exit_1"}

\* the queries are made in list order, once each, pods before usage, and the
\* records follow them
StrictSequence ==
    /\ IsPrefix(oc_calls, QueriesFor(namespaces, show_top))
    /\ IsPrefix(RecordedNamespaces, namespaces)
    /\ pc = "main_loop" => oc_calls = QueriesFor(SubSeq(namespaces, 1, ns_idx), show_top)
    /\ pc = "main_fetched" =>
           oc_calls = QueriesFor(SubSeq(namespaces, 1, ns_idx), show_top)
                         \o <<OcCall("pods", namespaces[ns_idx + 1])>>
    /\ pc = "reported" =>
           /\ oc_calls = QueriesFor(namespaces, show_top)
           /\ RecordedNamespaces = namespaces
           /\ ns_report = generate_report(ns_data, show_top, sort_by, TRUE)
    /\ pc # "reported" => ns_report = NoNsReport

\* the report is made in one step, from the state where the last namespace
\* has been stored, and nothing follows it
ReportedOnce ==
    /\ ns_report' # ns_report =>
          (pc = "main_loop" /\ ns_idx = Len(namespaces) /\ ns_report = NoNsReport
              /\ pc' = "reported")
    /\ pc = "reported" => pc' = "reported"

\* C25: every run ends; the queries go namespace by namespace in list order,
\* each namespace once, pods before usage; the report is made once, after
\* the last namespace, from one record per selected namespace; a run without
\* a fatal failure and with a namespace to analyse ends with the report
C25_StrictSequenceAndEnd ==
    /\ []StrictSequence
    /\ [][ReportedOnce]_vars
    /\ <>RunEnded
    /\ [](RunEnded /\ blad = <<>> /\ namespaces # <<>> => pc = "reported")

\* two namespaces with usage: four queries, then the report on two records
C25_Witness ==
    /\ pc = "reported" /\ show_top /\ Len(namespaces) = 2
    /\ Len(oc_calls) = 4
    /\ oc_calls[1] = OcCall("pods", namespaces[1]) /\ oc_calls[2] = OcCall("top", namespaces[1])
    /\ oc_calls[3] = OcCall("pods", namespaces[2]) /\ oc_calls[4] = OcCall("top", namespaces[2])
    /\ Len(ns_data) = 2
    /\ ns_report.printed

-----------------------------------------------------------------------------
(* node_auditor.py: get_nodes_data, get_pods_requests, generate_full_node_report *)

\* the cluster holds at most MaxNodePods pods
MaxNodePods == 2

NodeOne == <<"n", "1">>
NodeTwo == <<"n", "2">>
\* the name of a node that was deleted after the pod was bound to it
NodeGone == <<"g", "o", "n", "e">>

SixteenGi == <<"1", "6", "G", "i">>
OneGi == <<"1", "G", "i">>
\* 2000 times the 1280 MiB of a pod of ContainerA and ContainerB: its usage
\* is 0.05 %, which is not a binary fraction
LargeNode == <<"2", "5", "6", "0", "0", "0", "0", "M", "i">>

\* an item of `oc get nodes -o json`: metadata.name and the memory strings
\* of status.capacity and status.allocatable (Absent when the key is missing)
Node(name, capacity, allocatable) ==
    [name |-> name, capacity |-> capacity, allocatable |-> allocatable]

ClusterNodeLists ==
    {<<>>,
     <<Node(NodeOne, LargeNode, LargeNode)>>,
     <<Node(NodeOne, SixteenGi, OneGi), Node(NodeTwo, SixteenGi, SixteenGi)>>,
     <<Node(NodeTwo, Absent, Absent), Node(NodeOne, SixteenGi, SixteenGi)>>,
     <<Node(NodeOne, SixteenGi, <<"0">>), Node(NodeTwo, SixteenGi, OneGi)>>}

\* requests memory 2Gi
ContainerTwoGi ==
    [requests |-> [cpu |-> Absent, memory |-> <<"2", "G", "i">>],
     limits |-> [cpu |-> Absent, memory |-> Absent]]

\* an item of `oc get pods --all-namespaces -o json`: status.phase,
\* spec.nodeName (None when the key is missing) and spec.containers
ClusterPod(phase, nodeName, containers) ==
    [phase |-> phase, nodeName |-> nodeName, containers |-> containers]

NodePodSpecs == {<<ContainerTwoGi>>, <<ContainerA, ContainerB>>}

\* a pod that is not bound to a node yet is Pending
ClusterPods ==
    {ClusterPod(ph, nn, cs) :
        ph \in {"Running", "Pending", "Succeeded"},
        nn \in {NodeOne, NodeTwo, NodeGone},
        cs \in NodePodSpecs}
    \cup {ClusterPod("Pending", None, cs) : cs \in NodePodSpecs}

ClusterPodLists == UNION {[1..k -> ClusterPods] : k \in 0..MaxNodePods}

\* --memory-unit
TargetUnits == {<<"G", "i", "B">>, <<"m", "i">>, <<"K", "B">>}

\* lines 68-80: the entry of one node
NodeMetric(node) ==
    [name |-> node.name,
     capacity_mib |->
         convert_memory_to_mib("node_auditor",
                               DictGet(node.capacity, <<"0", "M", "i">>)).val,
     allocatable_mib |->
         convert_memory_to_mib("node_auditor",
                               DictGet(node.allocatable, <<"0", "M", "i">>)).val,
     requested_mib |-> RZero]

\* get_nodes_data, lines 59-83: node_metrics is a dict keyed by the node
\* name, here its entries in insertion order. A key enters the dict at the
\* first item of its name (NewKeys) and keeps that place; line 76 overwrites
\* the entry, so it holds the values of the last item of the name
get_nodes_data(nodes) ==
    LET NewKeys == {i \in 1..Len(nodes) :
                       \A j \in 1..(i - 1) : nodes[j].name # nodes[i].name}
        KeyAt(k) == CHOOSE i \in NewKeys : Cardinality({j \in NewKeys : j < i}) = k - 1
        LastNamed(i) ==
            CHOOSE j \in i..Len(nodes) :
                /\ nodes[j].name = nodes[i].name
                /\ \A k \in (j + 1)..Len(nodes) : nodes[k].name # nodes[i].name
    IN [k \in 1..Cardinality(NewKeys) |-> NodeMetric(nodes[LastNamed(KeyAt(k))])]

\* lines 106-111: pod_total_mem_request_mib
RECURSIVE PodTotalMemRequest(_)
PodTotalMemRequest(containers) ==
    IF containers = <<>> THEN RZero
    ELSE FloatAdd(PodTotalMemRequest(DropLast(containers, 1)),
                  convert_memory_to_mib("node_auditor",
                      DictGet(containers[Len(containers)].requests.memory, <<>>)).val)

\* node_name in node_metrics
InNodeMetrics(metrics, name) == \E i \in 1..Len(metrics) : metrics[i].name = name

\* line 114 adding the amount to every node
AddRequested_everyNode(metrics, name, amount) ==
    [i \in 1..Len(metrics) |-> [metrics[i] EXCEPT !.requested_mib = FloatAdd(@, amount)]]

\* line 114: node_metrics[node_name]['requested_mib'] += amount
AddRequested(metrics, name, amount) ==
    [i \in 1..Len(metrics) |->
        IF metrics[i].name = name
        THEN [metrics[i] EXCEPT !.requested_mib = FloatAdd(@, amount)]
        ELSE metrics[i]]

\* lines 94-119 without the test of the phase
StepNodePod_anyPhase(pod, st) ==
    IF ~Falsy(pod.nodeName) /\ InNodeMetrics(st.metrics, pod.nodeName)
    THEN [st EXCEPT !.metrics = AddRequested(st.metrics, pod.nodeName,
                                             PodTotalMemRequest(pod.containers))]
    ELSE IF ~Falsy(pod.nodeName)
    THEN [st EXCEPT !.unmatched = st.unmatched + 1]
    ELSE st

\* lines 94-119 without the elif branch
StepNodePod_dropsUnmatched(pod, st) ==
    IF pod.phase \notin {"Running", "Pending"} THEN st
    ELSE IF ~Falsy(pod.nodeName) /\ InNodeMetrics(st.metrics, pod.nodeName)
    THEN [st EXCEPT !.metrics = AddRequested(st.metrics, pod.nodeName,
                                             PodTotalMemRequest(pod.containers))]
    ELSE st

\* lines 94-119: one iteration of `for pod in pods_data.get('items', [])`
StepNodePod(pod, st) ==
    IF pod.phase \notin {"Running", "Pending"} THEN st
    ELSE IF ~Falsy(pod.nodeName) /\ InNodeMetrics(st.metrics, pod.nodeName)
    THEN [st EXCEPT !.metrics = AddRequested(st.metrics, pod.nodeName,
                                             PodTotalMemRequest(pod.containers))]
    ELSE IF ~Falsy(pod.nodeName)
    THEN [st EXCEPT !.unmatched = st.unmatched + 1]
    ELSE st

\* the characters c with c.upper() = u, for the letters u of the unit names:
\* the letter, its lower case and, for I, the dotless i (U+0131); no
\* character has an upper case of several letters that are all among them
UpperTo(u) ==
    CASE u = "G" -> {"G", "g"}
      [] u = "I" -> {"I", "i", "U+0131"}
      [] u = "B" -> {"B", "b"}
      [] u = "M" -> {"M", "m"}

\* lines 145 and 148: target_unit.upper() == name, name one of the unit names
UpperIs(target_unit, name) ==
    /\ Len(target_unit) = Len(name)
    /\ \A i \in 1..Len(name) : target_unit[i] \in UpperTo(name[i])

\* lines 145-153: unit_divisor
UnitDivisor(target_unit) ==
    IF UpperIs(target_unit, <<"G", "I", "B">>) \/ UpperIs(target_unit, <<"G", "I">>)
    THEN RInt(1024)
    ELSE IF UpperIs(target_unit, <<"M", "I", "B">>) \/ UpperIs(target_unit, <<"M", "I">>)
    THEN RInt(1)
    ELSE RInt(1024)

\* line 168 with the reserve clamped at zero
FreeReserve_clamped(allocatable, requested) ==
    IF FloatLess(allocatable, requested) THEN RZero ELSE FloatSub(allocatable, requested)

\* line 168: free_reserve
FreeReserve(allocatable, requested) == FloatSub(allocatable, requested)

\* lines 171-174 without the factor 100
UsagePercent_fraction(allocatable, requested) ==
    IF FloatLess(RZero, allocatable) THEN FloatDiv(requested, allocatable) ELSE RZero

\* lines 171-174: usage_percent
UsagePercent(allocatable, requested) ==
    IF FloatLess(RZero, allocatable)
    THEN FloatMul(FloatDiv(requested, allocatable), RInt(100))
    ELSE RZero

\* lines 164-188: the row of one node; the cells are the numbers printed
\* with two decimals and, for the usage, one decimal
NodeRow(m, divisor) ==
    [node |-> m.name,
     allocatable |-> FloatFixed(FloatRound(FloatDiv(m.allocatable_mib, divisor), 2), 2),
     requested |-> FloatFixed(FloatRound(FloatDiv(m.requested_mib, divisor), 2), 2),
     free_reserve |->
         FloatFixed(FloatRound(FloatDiv(FreeReserve(m.allocatable_mib, m.requested_mib),
                                        divisor), 2), 2),
     usage |-> FloatFixed(UsagePercent(m.allocatable_mib, m.requested_mib), 1)]

NodeReportRows(metrics, target_unit) ==
    [i \in 1..Len(metrics) |-> NodeRow(metrics[i], UnitDivisor(target_unit))]

InitNodes ==
    /\ pc = "get_nodes_data"
    /\ cluster_nodes \in ClusterNodeLists
    /\ cluster_pods \in ClusterPodLists
    /\ node_metrics = <<>> /\ np_items = <<>> /\ np_idx = 0
    /\ unmatched_pods_count = 0 /\ info_line = None /\ node_report = NoNodeReport
    /\ oc_error = NoOcError
    /\ IdleParse
    /\ IdleWorkloads
    /\ IdlePods
    /\ IdleTop
    /\ IdleReport
    /\ IdleRuns

\* what can go wrong in the try block of get_oc_json, lines 46-48:
\* subprocess.run raises CalledProcessError when oc ends with a non-zero
\* status and FileNotFoundError when there is no oc to start; json.loads
\* raises JSONDecodeError when the output of oc is not JSON
OcFailures == {"CalledProcessError", "FileNotFoundError", "JSONDecodeError"}

\* lines 49-54 without the test of the resource: sys.exit(1) for the pods too
get_oc_json_exitsForPods(resource, exc, cluster_items) ==
    CASE exc = "none" -> [ends |-> "return", items |-> cluster_items]
      [] exc = "CalledProcessError" -> [ends |-> "exit_1", items |-> <<>>]
      [] exc = "FileNotFoundError" -> [ends |-> "exit_1", items |-> <<>>]
      [] exc = "JSONDecodeError" -> [ends |-> "uncaught", items |-> <<>>]

\* get_oc_json, lines 36-57, called with 'nodes' or 'pods': the items of the
\* reply; on CalledProcessError the empty list for the pods and sys.exit(1)
\* for the nodes; sys.exit(1) on FileNotFoundError; JSONDecodeError has no
\* handler here or in a caller and ends the script with its traceback
get_oc_json(resource, exc, cluster_items) ==
    CASE exc = "none" -> [ends |-> "return", items |-> cluster_items]
      [] exc = "CalledProcessError" ->
             IF resource = "pods" THEN [ends |-> "return", items |-> <<>>]
             ELSE [ends |-> "exit_1", items |-> <<>>]
      [] exc = "FileNotFoundError" -> [ends |-> "exit_1", items |-> <<>>]
      [] exc = "JSONDecodeError" -> [ends |-> "uncaught", items |-> <<>>]

\* line 62, get_oc_json('nodes') fails: the run ends, by sys.exit(1) or by
\* the exception, before node_metrics is created
OcGetNodesFails ==
    /\ pc = "get_nodes_data"
    /\ \E exc \in OcFailures :
          /\ oc_error' = [resource |-> "nodes", exc |-> exc]
          /\ pc' = get_oc_json("nodes", exc, cluster_nodes).ends
    /\ UNCHANGED <<parseVars, workloadVars, podVars, topVars, reportVars, runVars, cluster_nodes,
                   cluster_pods, node_metrics, np_items, np_idx, unmatched_pods_count,
                   info_line, node_report>>

\* lines 59-83
GetNodesData ==
    /\ pc = "get_nodes_data"
    /\ node_metrics' = get_nodes_data(get_oc_json("nodes", "none", cluster_nodes).items)
    /\ oc_error' = NoOcError
    /\ pc' = "get_pods_requests"
    /\ UNCHANGED <<parseVars, workloadVars, podVars, topVars, reportVars, runVars, cluster_nodes,
                   cluster_pods, np_items, np_idx, unmatched_pods_count, info_line,
                   node_report>>

\* get_pods_requests has the reply of get_oc_json and starts its loop
\* (lines 90-94), or the script has ended inside get_oc_json
PodsFetched(got) ==
    IF got.ends = "return"
    THEN /\ np_items' = got.items /\ np_idx' = 0 /\ unmatched_pods_count' = 0
         /\ pc' = "node_pods_loop"
    ELSE /\ pc' = got.ends
         /\ UNCHANGED <<np_items, np_idx, unmatched_pods_count>>

\* line 90, get_oc_json('pods', all_namespaces=True) fails
OcGetAllPodsFails ==
    /\ pc = "get_pods_requests"
    /\ \E exc \in OcFailures :
          /\ oc_error' = [resource |-> "pods", exc |-> exc]
          /\ PodsFetched(get_oc_json("pods", exc, cluster_pods))
    /\ UNCHANGED <<parseVars, workloadVars, podVars, topVars, reportVars, runVars, cluster_nodes,
                   cluster_pods, node_metrics, info_line, node_report>>

\* lines 90-92
OcGetAllPods ==
    /\ pc = "get_pods_requests"
    /\ oc_error' = NoOcError
    /\ PodsFetched(get_oc_json("pods", "none", cluster_pods))
    /\ UNCHANGED <<parseVars, workloadVars, podVars, topVars, reportVars, runVars, cluster_nodes,
                   cluster_pods, node_metrics, info_line, node_report>>

\* lines 94-119
ProcessNodePod ==
    /\ pc = "node_pods_loop" /\ np_idx < Len(np_items)
    /\ \E st \in {StepNodePod(np_items[np_idx + 1],
                              [metrics |-> node_metrics,
                               unmatched |-> unmatched_pods_count])} :
          /\ node_metrics' = st.metrics
          /\ unmatched_pods_count' = st.unmatched
    /\ np_idx' = np_idx + 1
    /\ UNCHANGED <<pc, parseVars, workloadVars, podVars, topVars, reportVars, runVars, cluster_nodes,
                   cluster_pods, np_items, info_line, node_report, oc_error>>

\* lines 122-125
ReturnNodePods ==
    /\ pc = "node_pods_loop" /\ np_idx = Len(np_items)
    /\ info_line' = IF unmatched_pods_count > 0 THEN unmatched_pods_count ELSE None
    /\ pc' = "node_report"
    /\ UNCHANGED <<parseVars, workloadVars, podVars, topVars, reportVars, runVars, cluster_nodes,
                   cluster_pods, node_metrics, np_items, np_idx, unmatched_pods_count,
                   node_report, oc_error>>

\* lines 143-198 for a value of --memory-unit
GenerateNodeReport ==
    /\ pc = "node_report"
    /\ \E target_unit \in TargetUnits :
          node_report' = [printed |-> TRUE,
                          target_unit |-> target_unit,
                          rows |-> NodeReportRows(node_metrics, target_unit)]
    /\ pc' = "node_reported"
    /\ UNCHANGED <<parseVars, workloadVars, podVars, topVars, reportVars, runVars, cluster_nodes,
                   cluster_pods, node_metrics, np_items, np_idx, unmatched_pods_count,
                   info_line, oc_error>>

NextNodes ==
    \/ OcGetNodesFails
    \/ GetNodesData
    \/ OcGetAllPodsFails
    \/ OcGetAllPods
    \/ ProcessNodePod
    \/ ReturnNodePods
    \/ GenerateNodeReport

SpecNodes == InitNodes /\ [][NextNodes]_vars

-----------------------------------------------------------------------------
(* An aggregation invoked twice in one process, on the same fetched objects *)

\* the invocation has returned its totals
AggregationReturned == pc \in {"returned", "done", "node_report"}

\* the objects the invocation read
AggregationInput ==
    CASE pc = "returned" -> [items |-> pod_items, error |-> ns_result.error]
      [] pc = "done" -> [script |-> script, items |-> items]
      [] pc = "node_report" -> [nodes |-> cluster_nodes, items |-> np_items]

\* what the invocation returned or printed
AggregationOutput ==
    CASE pc = "returned" -> ns_result
      [] pc = "done" -> [report |-> report, rows |-> report_data, skipped |-> skipped]
      [] pc = "node_report" ->
             [metrics |-> node_metrics, unmatched |-> unmatched_pods_count,
              info |-> info_line]

FirstRun == [input |-> AggregationInput, output |-> AggregationOutput]

\* get_running_pods_resources(namespace) is called again
RunPodsAgain ==
    /\ pc = "returned" /\ run_no = 1
    /\ first_run' = FirstRun
    /\ run_no' = 2
    /\ pc' = "get_pods"
    /\ UNCHANGED <<parseVars, workloadVars, podVars, topVars, reportVars, nodeVars>>

\* generate_resource_report / generate_deployment_report is called again
RunWorkloadsAgain ==
    /\ pc = "done" /\ run_no = 1
    /\ first_run' = FirstRun
    /\ run_no' = 2
    /\ pc' = "start"
    /\ UNCHANGED <<parseVars, workloadVars, podVars, topVars, reportVars, nodeVars>>

\* get_nodes_data and get_pods_requests are called again
RunNodesAgain ==
    /\ pc = "node_report" /\ run_no = 1
    /\ first_run' = FirstRun
    /\ run_no' = 2
    /\ pc' = "get_nodes_data"
    /\ UNCHANGED <<parseVars, workloadVars, podVars, topVars, reportVars, nodeVars>>

InitAggregations == InitPods \/ InitWorkloads \/ InitNodes

NextAggregations ==
    \/ NextPods
    \/ NextWorkloads
    \/ NextNodes
    \/ RunPodsAgain
    \/ RunWorkloadsAgain
    \/ RunNodesAgain

SpecAggregations == InitAggregations /\ [][NextAggregations]_vars

\* C22: a second invocation of an aggregation that read the same objects as
\* the first returns the same record, field by field
C22_SecondRunEqual ==
    (AggregationReturned /\ run_no = 2 /\ AggregationInput = first_run.input)
        => AggregationOutput = first_run.output

\* get_running_pods_resources has returned 1000m / 1280Mi twice
C22_Witness ==
    /\ pc = "returned" /\ run_no = 2
    /\ pod_items = <<(<<ContainerA, ContainerB>>)>>
    /\ first_run.input.items = pod_items
    /\ first_run.output.cpu_req_m = RInt(1000)
    /\ ns_result.cpu_req_m = RInt(1000)
    /\ ns_result.mem_req_mib = RInt(1280)

-----------------------------------------------------------------------------
(* Properties of node_auditor.py *)

AfterNodePodsLoop == pc \in {"node_report", "node_reported"}

\* the fetched pods that count for a node: Running or Pending
Schedulable(pod) == pod.phase \in {"Running", "Pending"}

\* sum of the memory requests of the Schedulable pods among the first k
\* fetched pods whose spec.nodeName is name
RECURSIVE RequestedOn(_, _, _)
RequestedOn(pods, k, name) ==
    IF k = 0 THEN RZero
    ELSE RAdd(RequestedOn(pods, k - 1, name),
              IF Schedulable(pods[k]) /\ pods[k].nodeName = name
              THEN PodTotalMemRequest(pods[k].containers)
              ELSE RZero)

\* C14: for every node of the fetched node list requested_mib is the sum of
\* the container memory requests of exactly the Running or Pending pods whose
\* spec.nodeName is that node, at every point of the loop and after it
C14_RequestedPerNode ==
    pc \in {"node_pods_loop", "node_report", "node_reported"} =>
        /\ Len(node_metrics) = Len(cluster_nodes)
        /\ \A i \in 1..Len(node_metrics) :
              /\ node_metrics[i].name = cluster_nodes[i].name
              /\ node_metrics[i].requested_mib
                    = RequestedOn(np_items, np_idx, node_metrics[i].name)

\* a node with allocatable 2560000Mi and two Running pods of 2Gi each:
\* requested is 4096
C14_Witness ==
    /\ pc = "node_report"
    /\ cluster_nodes = <<Node(NodeOne, LargeNode, LargeNode)>>
    /\ np_items = <<ClusterPod("Running", NodeOne, <<ContainerTwoGi>>),
                    ClusterPod("Running", NodeOne, <<ContainerTwoGi>>)>>
    /\ node_metrics[1].allocatable_mib = RInt(2560000)
    /\ node_metrics[1].requested_mib = RInt(4096)

\* the pod names a node that is not in node_metrics
NamesAbsentNode(pod) ==
    ~Falsy(pod.nodeName) /\ ~InNodeMetrics(node_metrics, pod.nodeName)

AbsentNodePods(k) == {j \in 1..k : NamesAbsentNode(np_items[j])}

\* lines 94-119 run over the first k pods of a list
RECURSIVE RunNodePodsLoop(_, _, _)
RunNodePodsLoop(pods, k, st) ==
    IF k = 0 THEN st ELSE StepNodePod(pods[k], RunNodePodsLoop(pods, k - 1, st))

NotAbsentNode(pod) == ~NamesAbsentNode(pod)

\* node_metrics is what the loop gives on the fetched pods without those that
\* name an absent node, and the [INFO] line holds the count when it is > 0
AbsentNodePodsAddNothing ==
    /\ node_metrics =
          RunNodePodsLoop(SelectSeq(SubSeq(np_items, 1, np_idx), NotAbsentNode),
                          Len(SelectSeq(SubSeq(np_items, 1, np_idx), NotAbsentNode)),
                          [metrics |-> get_nodes_data(cluster_nodes),
                           unmatched |-> 0]).metrics
    /\ AfterNodePodsLoop =>
          info_line = IF unmatched_pods_count > 0 THEN unmatched_pods_count ELSE None

\* C15 as stated: every fetched pod that names an absent node is counted as
\* unmatched exactly once, whatever its phase
C15_EveryAbsentNodePodCounted ==
    pc \in {"node_pods_loop", "node_report", "node_reported"} =>
        /\ unmatched_pods_count = Cardinality(AbsentNodePods(np_idx))
        /\ AbsentNodePodsAddNothing

\* C15: every Running or Pending pod that names an absent node is counted as
\* unmatched exactly once, adds nothing to any node, and the count is
\* reported when it is greater than zero
C15_UnmatchedCounted ==
    pc \in {"node_pods_loop", "node_report", "node_reported"} =>
        /\ unmatched_pods_count
              = Cardinality({j \in AbsentNodePods(np_idx) : Schedulable(np_items[j])})
        /\ AbsentNodePodsAddNothing

\* two pods on the deleted node, one Running and one Pending, next to node n1
C15_Witness ==
    /\ pc = "node_report"
    /\ cluster_nodes = <<Node(NodeOne, LargeNode, LargeNode)>>
    /\ np_items = <<ClusterPod("Running", NodeGone, <<ContainerTwoGi>>),
                    ClusterPod("Pending", NodeGone, <<ContainerA, ContainerB>>)>>
    /\ unmatched_pods_count = 2
    /\ info_line = 2
    /\ node_metrics[1].requested_mib = RZero

\* C16: the free reserve of every row is allocatable minus requested, in the
\* unit of the report and with two decimals, and is negative when requested
\* exceeds allocatable
C16_FreeReserveNotClamped ==
    pc = "node_reported" =>
        /\ Len(node_report.rows) = Len(node_metrics)
        /\ \A i \in 1..Len(node_metrics) :
              /\ node_report.rows[i].node = node_metrics[i].name
              /\ node_report.rows[i].free_reserve
                    = RoundTo(RDiv(RSub(node_metrics[i].allocatable_mib,
                                        node_metrics[i].requested_mib),
                                   UnitDivisor(node_report.target_unit)), 2)
              /\ RLess(node_metrics[i].allocatable_mib, node_metrics[i].requested_mib)
                    => RLess(node_report.rows[i].free_reserve, RZero)

\* node n1 with allocatable 1Gi holds two Running pods of 2Gi: -3.00 GiB
C16_Witness ==
    /\ pc = "node_reported"
    /\ node_report.target_unit = <<"G", "i", "B">>
    /\ Len(node_metrics) = 2
    /\ node_metrics[1].allocatable_mib = RInt(1024)
    /\ node_metrics[1].requested_mib = RInt(4096)
    /\ node_report.rows[1].free_reserve = RInt(-3)

\* x and y differ by eps at most
Within(x, y, eps) ==
    /\ ~RLess(eps, RSub(x, y))
    /\ ~RLess(RSub(x, y), [n |-> -eps.n, d |-> eps.d])

\* C17: the usage of every row is requested / allocatable * 100, the
\* division and the product being those of binary64 and the result printed
\* with one decimal, when allocatable is not zero, and 0 when allocatable is
\* zero; the printed usage is within 0.05 of the exact quotient times 100
C17_UsagePercent ==
    pc = "node_reported" =>
        \A i \in 1..Len(node_metrics) :
            IF node_metrics[i].allocatable_mib # RZero
            THEN /\ node_report.rows[i].usage
                      = FloatFixed(FloatMul(FloatDiv(node_metrics[i].requested_mib,
                                                     node_metrics[i].allocatable_mib),
                                            RInt(100)), 1)
                 /\ Within(node_report.rows[i].usage,
                           RMul(RDiv(node_metrics[i].requested_mib,
                                     node_metrics[i].allocatable_mib),
                                RInt(100)),
                           Rat(1, 20))
            ELSE node_report.rows[i].usage = RZero

\* node n1 has allocatable 0 and holds a pod of 2Gi: usage 0; node n2 has
\* allocatable 1Gi and holds a pod of 1280Mi: usage 125.0
C17_Witness ==
    /\ pc = "node_reported"
    /\ Len(node_metrics) = 2
    /\ node_metrics[1].allocatable_mib = RZero
    /\ node_metrics[1].requested_mib = RInt(2048)
    /\ node_report.rows[1].usage = RZero
    /\ node_metrics[2].allocatable_mib = RInt(1024)
    /\ node_metrics[2].requested_mib = RInt(1280)
    /\ node_report.rows[2].usage = RInt(125)

\* the pod handled by a step of the loop is skipped: another phase, not
\* scheduled, or bound to a node that is not listed
SkippedPod(pod) ==
    \/ ~Schedulable(pod)
    \/ Falsy(pod.nodeName)
    \/ ~InNodeMetrics(node_metrics, pod.nodeName)

\* C28: a step of the loop of get_pods_requests leaves the nodes, their
\* capacity_mib and allocatable_mib as they are, changes requested_mib of no
\* node other than the one the pod names, and changes nothing for a skipped pod
C28_OnePodOneNode ==
    [][(pc = "node_pods_loop" /\ np_idx' = np_idx + 1) =>
          /\ Len(node_metrics') = Len(node_metrics)
          /\ \A i \in 1..Len(node_metrics) :
                /\ node_metrics'[i].name = node_metrics[i].name
                /\ node_metrics'[i].capacity_mib = node_metrics[i].capacity_mib
                /\ node_metrics'[i].allocatable_mib = node_metrics[i].allocatable_mib
                /\ node_metrics[i].name # np_items[np_idx'].nodeName
                      => node_metrics'[i].requested_mib = node_metrics[i].requested_mib
          /\ SkippedPod(np_items[np_idx']) => node_metrics' = node_metrics]_vars

\* of two nodes the second got the 2Gi of the first pod and the first got
\* nothing; the next pod names a node that is not listed
C28_Witness ==
    /\ pc = "node_pods_loop" /\ np_idx = 1 /\ Len(np_items) = 2
    /\ Len(node_metrics) = 2
    /\ np_items[1] = ClusterPod("Running", NodeTwo, <<ContainerTwoGi>>)
    /\ np_items[2].nodeName = NodeGone
    /\ node_metrics[1].name = NodeOne /\ node_metrics[1].requested_mib = RZero
    /\ node_metrics[2].name = NodeTwo /\ node_metrics[2].requested_mib = RInt(2048)

\* get_oc_json('pods', all_namespaces=True) raised an exception
PodsListingFailed == oc_error.resource = "pods"

\* get_oc_json('nodes') raised an exception
NodesListingFailed == oc_error.resource = "nodes"

\* the script has ended without a report: sys.exit(1) or an exception that
\* nothing catches
RunAborted == pc \in {"exit_1", "uncaught"}

\* the report printed for an empty list of pods: one row per node, requested
\* 0 and the free reserve equal to allocatable
ReportOfNoPods ==
    /\ node_report.printed
    /\ Len(node_report.rows) = Len(cluster_nodes)
    /\ \A i \in 1..Len(cluster_nodes) :
          /\ node_report.rows[i].node = cluster_nodes[i].name
          /\ node_report.rows[i].requested = RZero
          /\ node_report.rows[i].free_reserve = node_report.rows[i].allocatable
          /\ node_metrics[i].requested_mib = RZero

\* no entry of node_metrics and no row: the run ended before any row
NoRowProduced == RunAborted /\ node_report = NoNodeReport

\* C29 as stated: no failure of the listing of the pods aborts the run, the
\* report is that of an empty list of pods; a failure of the listing of the
\* nodes ends the run before any row is produced
C29_NoPodsFailureAborts ==
    /\ PodsListingFailed =>
          /\ ~RunAborted
          /\ np_items = <<>>
          /\ pc = "node_reported" => ReportOfNoPods
    /\ NodesListingFailed => (NoRowProduced /\ node_metrics = <<>>)

\* C29: when oc get pods ends with a non-zero status the run is not aborted,
\* the list of pods is empty and the report has one row per node with
\* requested 0 and the free reserve equal to allocatable; when oc cannot be
\* started or its output is not JSON at the listing of the pods the run ends
\* with no row; after a failed listing of the nodes the run has ended with no
\* node entry and no row
C29_PodsFailureTolerated ==
    /\ (PodsListingFailed /\ oc_error.exc = "CalledProcessError") =>
          /\ ~RunAborted
          /\ np_items = <<>>
          /\ pc = "node_reported" => ReportOfNoPods
    /\ (PodsListingFailed /\ oc_error.exc # "CalledProcessError") => NoRowProduced
    /\ NodesListingFailed => (NoRowProduced /\ node_metrics = <<>>)

\* two nodes, two pods in the cluster, oc get pods ended with a non-zero
\* status and the report shows 1.00 GiB allocatable and free on the first node
C29_Witness ==
    /\ pc = "node_reported" /\ PodsListingFailed /\ Len(cluster_pods) = 2
    /\ oc_error.exc = "CalledProcessError"
    /\ Len(node_report.rows) = 2
    /\ node_report.target_unit = <<"G", "i", "B">>
    /\ node_report.rows[1].allocatable = RInt(1)
    /\ node_report.rows[1].requested = RZero
    /\ node_report.rows[1].free_reserve = RInt(1)


-----------------------------------------------------------------------------
(* Bare numbers in convert_memory_to_mib *)

\* the argument was the number numeral / 4 with no suffix
BareNumberReturned ==
    pc = "returned" /\ fn = "mem" /\ numeral # NoNumeral /\ suffix = <<>>

\* C26 as stated: in all six scripts a bare number n resolves to n MiB
C26_BareNumberIsMiB ==
    BareNumberReturned => result = Return(Rat(numeral, 4))

\* C26: a bare number n resolves to n MiB in limitpython, limitsreq,
\* namespacelimitsreq, node_auditor and node_capacity_reporter, and to n
\* bytes, n / 2^20 MiB, in ns_resource_report
C26_BareNumberPerScript ==
    BareNumberReturned =>
        result = Return(IF variant = "ns_resource_report"
                        THEN Rat(numeral, 4 * 1024 * 1024)
                        ELSE Rat(numeral, 4))

\* "2.5" has been resolved to 2.5 MiB by node_auditor
C26_Witness ==
    /\ pc = "returned" /\ fn = "mem" /\ variant = "node_auditor"
    /\ numeral = 10 /\ suffix = <<>> /\ value_str = <<"2", ".", "5">>
    /\ result = Return(Rat(5, 2))

====
